---- MODULE Spec2Model ----
(***************************************************************************)
(* The commit pruning and alias engine of filter-repo-rs: the transformer  *)
(* that sits between `git fast-export` and `git fast-import`.  The model   *)
(* follows src/filter-repo-rs/src/commit.rs and src/filter-repo-rs/src/    *)
(* tag.rs line by line of the input stream.  Bytes are abstracted to       *)
(* lines: commit_buf is a sequence of line tokens, and the byte spans of   *)
(* ParentLine (start, end) are offsets counted in lines.                   *)
(***************************************************************************)
EXTENDS Integers, Sequences, FiniteSets, TLC

(* ---- bounds of the explored input streams ---- *)
\* records (commits and tag blocks) of one input stream
MaxRecords == 4
\* parent lines (`from` / `merge`) of one input commit
MaxParents == 2
\* distinct raw object ids a parent line may name instead of a mark
NumRawOids == 1
\* annotated tag blocks of one input stream
MaxTags == 1
\* records of an input stream that is run under every combination of options
MaxOptRecords == 3

Marks == 1 .. MaxRecords
RawOids == 1 .. NumRawOids
PruneModes == {"Never", "Auto", "Always"}

(* ---- Option<T> ---- *)
None == << >>
Some(x) == << x >>
IsSome(o) == o # << >>
Unwrap(o) == o[1]

(* ---- a line of the stream ----
   t      : the directive keyword
   ismark : for `from` / `merge` / `to`, whether the target is `:<n>`
            (a mark) rather than a raw object id
   n      : the number the line carries (mark, raw oid, original oid)     *)
Line(t, ismark, n) == [t |-> t, ismark |-> ismark, n |-> n]
NoLine == Line("", FALSE, 0)

VARIABLES
    opts,                 \* Options: prune_empty, prune_degenerate, no_ff
    stream_len,           \* records the input stream of this run holds at most
    pc,                   \* position of the stream driver
    n_in,                 \* records of the input stream begun so far
    n_tags,               \* tag blocks of the input stream so far
    commit_buf,           \* Vec<u8>, as a sequence of lines
    commit_has_changes,
    commit_mark,          \* Option<u32>
    first_parent_mark,    \* Option<u32>
    commit_original_oid,  \* Option<Vec<u8>>
    parent_count,
    parent_lines,         \* Vec<ParentLine>
    commit_pairs,         \* Vec<(Vec<u8>, Option<u32>)>
    alias_map,            \* HashMap<u32, u32>
    emitted_marks,        \* HashSet<u32>
    updated_refs,         \* BTreeSet<Vec<u8>>
    written,              \* what the last step wrote to fi_in / filt_file
    out_len,              \* history: records written downstream so far
    out_marks,            \* history: marks of the commits and tags written
    pruned,               \* history: marks of the commits pruned so far
    via,                  \* history: pruned marks whose first input parent was pruned
    last                  \* history: what the last terminated commit was given

(* ---- the header-level handlers: ref renaming, tag blocks, resets, data
        framing (commit.rs rename_commit_header_ref and handle_commit_data,
        tag.rs) ---- *)
VARIABLES
    tag_rename,           \* opts.tag_rename: Option<(Vec<u8>, Vec<u8>)>
    branch_rename,        \* opts.branch_rename: Option<(Vec<u8>, Vec<u8>)>
    downstream,           \* the lines the header-level handlers wrote to filt_file / fi_in
    ref_renames,          \* BTreeSet<(Vec<u8>, Vec<u8>)>
    annotated_tag_refs,   \* BTreeSet<Vec<u8>>
    pending_tag_reset,    \* Option<Vec<u8>>
    buffered_tag_resets,  \* Vec<(Vec<u8>, Vec<u8>)>
    allocated,            \* sizes of the payload buffers allocated so far
    failed,               \* the io::Error a handler returned, "none" while running
    fi_results,           \* the results a write to the importer's stdin can have in this run
    import_broken,        \* the import-broken flag
    n_rec,                \* header-level handler calls so far
    last_call             \* history: what the last handler call was given and wrote

(* ---- the build: cfg!(windows) ---- *)
VARIABLES
    windows               \* cfg!(windows) of this build

(* ---- the path codec (pathutil.rs) ---- *)
VARIABLES
    path_in,              \* the path bytes handed to the encoder
    token,                \* Option: the path token the encoder produced
    decoded               \* Option: the bytes the decoder read back from the token

(* ---- the file-change handler (filechange.rs) ---- *)
VARIABLES
    fc_opts,              \* Options: paths, path_globs, path_regexes, invert_paths, path_renames, path_compat_policy
    fc_in,                \* Option: the parsed directive handle_file_change_line was given
    fc_out                \* Option: the outcome it returned

(* ---- the literal replacer (message.rs MessageReplacer) ---- *)
VARIABLES
    repl_pairs,           \* MessageReplacer.pairs: Vec<(Vec<u8>, Vec<u8>)>
    payload,              \* the payload bytes handed to the replacer
    applied,              \* Option: what whole-buffer replacement returned
    s_pos,                \* streaming: payload bytes read so far
    s_state,              \* streaming: the automaton's state, the pattern prefix matched so far
    s_held,               \* streaming: bytes read and not yet written
    s_out,                \* streaming: bytes written so far
    s_changed,            \* streaming: the changed flag
    s_cuts,               \* history: the positions at which a read chunk ended
    s_straddled,          \* history: a replaced occurrence lay across a chunk boundary
    s_done                \* streaming: "no" while reading, then "ok" or "err"

(* ---- the short-hash mapper (message.rs ShortHashMapper) ---- *)
VARIABLES
    lookup,               \* ShortHashMapper.lookup: old oid -> Option of new oid
    prefix_index,         \* ShortHashMapper.prefix_index: 7-digit prefix -> old oids, in push order
    cache,                \* ShortHashMapper.cache: lowercased run -> Option of its replacement
    commit_map,           \* history: the commit-map as written so far, old oid -> new oid
    rewritten,            \* Option: the last run handed to rewrite, the bytes it returned, the commit-map then
    hash_calls            \* update_mapping and rewrite calls made so far

(* ---- the file-change handler on raw lines (filechange.rs parse_file_change_line) ---- *)
VARIABLES
    line_opts,            \* Options of the run that handles the line
    fc_line,              \* the bytes of the line handle_file_change_line is given
    fc_result             \* Option: what handle_file_change_line returned for the line

(* ---- the path glob matcher (pathutil.rs glob_match_bytes) ---- *)
VARIABLES
    glob_pat,             \* the pattern bytes
    glob_text,            \* the path bytes
    glob_result           \* Option: what glob_match_bytes returned

(* ---- the replacement rules file (message.rs from_file) ---- *)
VARIABLES
    rules_file,           \* the lines of the rules file
    rules_payload,        \* the payload the literal rules are applied to
    msg_replacer,         \* Option: the pairs of MessageReplacer::from_file
    regex_replacer,       \* Option: what RegexReplacer::from_file returned
    msg_out               \* Option: what MessageReplacer::apply returned

(* ---- the mailmap rewriter (commit.rs MailmapRewriter) ---- *)
VARIABLES
    mm_rules,             \* the rules of the rewriter: old email, new name, new email
    mm_ident,             \* the identity line read: keyword, name, email
    mm_out                \* Option: what rewrite_mailmap_line returned

stream_vars == << opts, stream_len, pc, n_in, n_tags, commit_buf, commit_has_changes,
                  commit_mark, first_parent_mark, commit_original_oid, parent_count,
                  parent_lines, commit_pairs, alias_map, written, out_len, out_marks,
                  pruned, via, last >>

shared_vars == << emitted_marks, updated_refs >>

refs_vars == << tag_rename, branch_rename, downstream, ref_renames, annotated_tag_refs,
                pending_tag_reset, buffered_tag_resets, allocated, failed, fi_results,
                import_broken, n_rec, last_call >>

build_vars == << windows >>

path_vars == << path_in, token, decoded >>

fc_vars == << fc_opts, fc_in, fc_out >>

repl_vars == << repl_pairs, payload, applied, s_pos, s_state, s_held, s_out, s_changed,
                s_cuts, s_straddled, s_done >>

hash_vars == << lookup, prefix_index, cache, commit_map, rewritten, hash_calls >>

lines_vars == << line_opts, fc_line, fc_result >>

glob_vars == << glob_pat, glob_text, glob_result >>

rules_vars == << rules_file, rules_payload, msg_replacer, regex_replacer, msg_out >>

mailmap_vars == << mm_rules, mm_ident, mm_out >>

vars == << stream_vars, shared_vars, refs_vars, build_vars, path_vars, fc_vars,
           repl_vars, hash_vars, lines_vars, glob_vars, rules_vars, mailmap_vars >>

\* what the commit handlers leave alone
side_vars == << refs_vars, build_vars, path_vars, fc_vars, repl_vars, hash_vars,
                lines_vars, glob_vars, rules_vars, mailmap_vars >>

\* what the actions on refs_vars leave alone
not_refs_vars == << stream_vars, build_vars, path_vars, fc_vars, repl_vars, hash_vars,
                    lines_vars, glob_vars, rules_vars, mailmap_vars >>

\* what the actions on path_vars leave alone
not_path_vars == << stream_vars, shared_vars, refs_vars, build_vars, fc_vars, repl_vars,
                    hash_vars, lines_vars, glob_vars, rules_vars, mailmap_vars >>

\* what the actions on fc_vars leave alone
not_fc_vars == << stream_vars, shared_vars, refs_vars, build_vars, path_vars, repl_vars,
                  hash_vars, lines_vars, glob_vars, rules_vars, mailmap_vars >>

\* what the actions on repl_vars leave alone
not_repl_vars == << stream_vars, shared_vars, refs_vars, build_vars, path_vars, fc_vars,
                    hash_vars, lines_vars, glob_vars, rules_vars, mailmap_vars >>

\* what the actions on hash_vars leave alone
not_hash_vars == << stream_vars, shared_vars, refs_vars, build_vars, path_vars, fc_vars,
                    repl_vars, lines_vars, glob_vars, rules_vars, mailmap_vars >>

\* what the actions on lines_vars leave alone
not_lines_vars == << stream_vars, shared_vars, refs_vars, build_vars, path_vars,
                     fc_vars, repl_vars, hash_vars, glob_vars, rules_vars, mailmap_vars >>

\* what the actions on glob_vars leave alone
not_glob_vars == << stream_vars, shared_vars, refs_vars, build_vars, path_vars, fc_vars,
                    repl_vars, hash_vars, lines_vars, rules_vars, mailmap_vars >>

\* what the actions on rules_vars leave alone
not_rules_vars == << stream_vars, shared_vars, refs_vars, build_vars, path_vars,
                     fc_vars, repl_vars, hash_vars, lines_vars, glob_vars, mailmap_vars >>

\* what the actions on mailmap_vars leave alone
not_mailmap_vars == << stream_vars, shared_vars, refs_vars, build_vars, path_vars,
                       fc_vars, repl_vars, hash_vars, lines_vars, glob_vars, rules_vars >>

\* no header-level handler has run
NoCall == [kind |-> "none"]

\* refs_vars in a run that does not use them
RefsIdle ==
    /\ tag_rename = None
    /\ branch_rename = None
    /\ downstream = << >>
    /\ ref_renames = {}
    /\ annotated_tag_refs = {}
    /\ pending_tag_reset = None
    /\ buffered_tag_resets = << >>
    /\ allocated = << >>
    /\ failed = "none"
    /\ fi_results = {"ok"}
    /\ import_broken = FALSE
    /\ n_rec = 0
    /\ last_call = NoCall

\* build_vars in a run that does not use them
BuildIdle ==
    /\ windows = FALSE

\* path_vars in a run that does not use them
PathIdle ==
    /\ path_in = << >>
    /\ token = None
    /\ decoded = None

\* fc_vars in a run that does not use them
FcIdle ==
    /\ fc_opts = None
    /\ fc_in = None
    /\ fc_out = None

\* repl_vars in a run that does not use them
ReplIdle ==
    /\ repl_pairs = << >>
    /\ payload = << >>
    /\ applied = None
    /\ s_pos = 0
    /\ s_state = << >>
    /\ s_held = << >>
    /\ s_out = << >>
    /\ s_changed = FALSE
    /\ s_cuts = {}
    /\ s_straddled = FALSE
    /\ s_done = "no"

\* hash_vars in a run that does not use them
HashIdle ==
    /\ lookup = << >>
    /\ prefix_index = << >>
    /\ cache = << >>
    /\ commit_map = << >>
    /\ rewritten = None
    /\ hash_calls = 0

\* lines_vars in a run that does not use them
LinesIdle ==
    /\ line_opts = None
    /\ fc_line = << >>
    /\ fc_result = None

\* glob_vars in a run that does not use them
GlobIdle ==
    /\ glob_pat = << >>
    /\ glob_text = << >>
    /\ glob_result = None

\* rules_vars in a run that does not use them
RulesIdle ==
    /\ rules_file = << >>
    /\ rules_payload = << >>
    /\ msg_replacer = None
    /\ regex_replacer = None
    /\ msg_out = None

\* mailmap_vars in a run that does not use them
MailmapIdle ==
    /\ mm_rules = << >>
    /\ mm_ident = << >>
    /\ mm_out = None

SideIdle ==
    /\ RefsIdle
    /\ BuildIdle
    /\ PathIdle
    /\ FcIdle
    /\ ReplIdle
    /\ HashIdle
    /\ LinesIdle
    /\ GlobIdle
    /\ RulesIdle
    /\ MailmapIdle

(* ---- commit.rs: parsing of parent lines ---- *)
parse_from_mark(line) ==
    IF line.t = "from" /\ line.ismark THEN Some(line.n) ELSE None

parse_merge_mark(line) ==
    IF line.t = "merge" /\ line.ismark THEN Some(line.n) ELSE None

ParentLine(start, end, mark, kind) ==
    [start |-> start, end |-> end, mark |-> mark, kind |-> kind]

(* ---- commit.rs: resolve_canonical_mark ---- *)
RECURSIVE ResolveLoop(_, _, _)
ResolveLoop(current, seen, am) ==
    IF current \notin DOMAIN am THEN current
    ELSE IF current \in seen THEN current
    ELSE IF am[current] = current THEN current
    ELSE ResolveLoop(am[current], seen \cup {current}, am)

\* variant: no alias resolution, a mark is its own canonical form
resolve_unresolved(mark, am) == mark

resolve_canonical_mark(mark, am) == ResolveLoop(mark, {}, am)

(* ---- commit.rs: rebuild_parent_line ---- *)
rebuild_parent_line(kind, mark) ==
    IF kind = "From" THEN Line("from", TRUE, mark) ELSE Line("merge", TRUE, mark)

\* variant: the stanza with its two marks exchanged
build_alias_exchanged(old_mark, parent_mark) ==
    << Line("alias", FALSE, 0), Line("mark", TRUE, parent_mark),
       Line("to", TRUE, old_mark), Line("end", FALSE, 0) >>

(* ---- commit.rs: build_alias ---- *)
build_alias(old_mark, parent_mark) ==
    << Line("alias", FALSE, 0), Line("mark", TRUE, old_mark),
       Line("to", TRUE, parent_mark), Line("end", FALSE, 0) >>

\* variant: a merge that is still a merge gets no protection
should_keep_commit_ignoring_merge(has_changes, fpm, cmark, pcount, was_merge, is_degenerate, o) ==
    IF fpm = None \/ cmark = None THEN TRUE
    ELSE IF has_changes THEN TRUE
    ELSE IF was_merge /\ is_degenerate
         THEN IF o.no_ff THEN TRUE
              ELSE o.prune_degenerate = "Never"
    ELSE o.prune_empty = "Never"

\* variant: a degenerate merge falls through to the prune-empty decision
should_keep_commit_degenerate_as_empty(has_changes, fpm, cmark, pcount, was_merge, is_degenerate, o) ==
    IF fpm = None \/ cmark = None THEN TRUE
    ELSE IF has_changes THEN TRUE
    ELSE IF pcount >= 2 THEN TRUE
    ELSE o.prune_empty = "Never"

\* variant: no-ff also protects an empty non-merge commit
should_keep_commit_no_ff_everywhere(has_changes, fpm, cmark, pcount, was_merge, is_degenerate, o) ==
    IF fpm = None \/ cmark = None THEN TRUE
    ELSE IF has_changes THEN TRUE
    ELSE IF pcount >= 2 THEN TRUE
    ELSE IF o.no_ff THEN TRUE
    ELSE IF was_merge /\ is_degenerate
         THEN o.prune_degenerate = "Never"
    ELSE o.prune_empty = "Never"

(* ---- commit.rs: should_keep_commit ---- *)
should_keep_commit(has_changes, fpm, cmark, pcount, was_merge, is_degenerate, o) ==
    IF fpm = None \/ cmark = None THEN TRUE
    ELSE IF has_changes THEN TRUE
    ELSE IF pcount >= 2 THEN TRUE
    ELSE IF was_merge /\ is_degenerate
         THEN IF o.no_ff THEN TRUE
              ELSE o.prune_degenerate = "Never"
    ELSE o.prune_empty = "Never"

(* ---- commit.rs: finalize_parent_lines, the ParentReplacement enum ---- *)
ReplNone == [tag |-> "None", canonical |-> 0, kind |-> "", bytes |-> << >>]
ReplCanonical(c, k) == [tag |-> "Canonical", canonical |-> c, kind |-> k, bytes |-> << >>]
ReplRaw(b) == [tag |-> "Raw", canonical |-> 0, kind |-> "", bytes |-> b]

\* commit_buf[a..b]
Slice(buf, a, b) == SubSeq(buf, a + 1, b)

\* variant: every mark parent is taken as emitted
ParentEmittedAlways(canonical, emitted) == TRUE

\* commit.rs 479: a canonical parent is kept only if it was emitted
ParentEmitted(canonical, emitted) == canonical \in emitted

\* commit.rs 483: seen_canonical.insert(canonical) returns false on a duplicate
ParentDuplicate(canonical, seen_canonical) == canonical \in seen_canonical

\* variant: the replacement names the mark of the input line
CanonicalReplacementInputMark(canonical, mark, kind) == ReplCanonical(mark, kind)

\* commit.rs 491-494: the replacement of a retained mark parent names the
\* canonical mark, not the mark the input line named
CanonicalReplacement(canonical, mark, kind) == ReplCanonical(canonical, kind)

\* commit.rs 476-504: the first loop, over parent_lines.iter().enumerate()
RECURSIVE FinalizeScan(_, _, _, _, _, _)
FinalizeScan(i, buf, pls, emitted, am, acc) ==
    IF i > Len(pls) THEN acc
    ELSE
      LET parent == pls[i]
          idx == i - 1
      IN
      IF IsSome(parent.mark)
      THEN
        LET canonical == resolve_canonical_mark(Unwrap(parent.mark), am) IN
        IF ~ParentEmitted(canonical, emitted)
        THEN FinalizeScan(i + 1, buf, pls, emitted, am,
                 [acc EXCEPT !.replacements = Append(@, ReplNone)])
        ELSE IF ParentDuplicate(canonical, acc.seen_canonical)
        THEN FinalizeScan(i + 1, buf, pls, emitted, am,
                 [acc EXCEPT !.replacements = Append(@, ReplNone)])
        ELSE FinalizeScan(i + 1, buf, pls, emitted, am,
                 [acc EXCEPT
                    !.seen_canonical = @ \cup {canonical},
                    !.first_kept_idx = IF @ = None THEN Some(idx) ELSE @,
                    !.first_kept_mark =
                        IF acc.first_kept_idx = None THEN Some(canonical) ELSE @,
                    !.replacements = Append(@, CanonicalReplacement(canonical,
                                               Unwrap(parent.mark), parent.kind)),
                    !.kept_count = @ + 1])
      ELSE
        LET line == Slice(buf, parent.start, parent.end) IN
        FinalizeScan(i + 1, buf, pls, emitted, am,
            [acc EXCEPT
               !.first_kept_idx = IF @ = None THEN Some(idx) ELSE @,
               !.replacements = Append(@, ReplRaw(line)),
               !.kept_count = @ + 1])

\* variant: the first retained parent is not promoted to `from`
EffectiveKindUnpromoted(idx, first_kept_idx, kind) == kind

\* commit.rs 519-523: the keyword a rewritten mark parent is written with
EffectiveKind(idx, first_kept_idx, kind) ==
    IF Some(idx) = first_kept_idx THEN "From" ELSE kind

\* commit.rs 526-534: a raw parent is written verbatim, a leading `merge`
\* rewritten to `from`
RawBytes(idx, first_kept_idx, bytes) ==
    IF Some(idx) = first_kept_idx /\ Len(bytes) > 0 /\ bytes[1].t = "merge"
    THEN << [bytes[1] EXCEPT !.t = "from"] >> \o Tail(bytes)
    ELSE bytes

\* commit.rs 506-541: the second loop, rebuilding the buffer
RECURSIVE FinalizeRebuild(_, _, _, _, _, _, _)
FinalizeRebuild(i, buf, pls, repl, first_kept_idx, new_buf, cursor) ==
    IF i > Len(pls)
    THEN IF cursor < Len(buf) THEN new_buf \o Slice(buf, cursor, Len(buf)) ELSE new_buf
    ELSE
      LET parent == pls[i]
          idx == i - 1
          r == repl[i]
          copied == IF cursor < parent.start
                    THEN new_buf \o Slice(buf, cursor, parent.start)
                    ELSE new_buf
          piece == IF r.tag = "Canonical"
                   THEN << rebuild_parent_line(
                              EffectiveKind(idx, first_kept_idx, r.kind), r.canonical) >>
                   ELSE IF r.tag = "Raw"
                   THEN RawBytes(idx, first_kept_idx, r.bytes)
                   ELSE << >>
      IN FinalizeRebuild(i + 1, buf, pls, repl, first_kept_idx, copied \o piece, parent.end)

\* commit.rs 453-547; the result is (commit_buf, first_parent_mark, kept_count)
finalize_parent_lines(buf, pls, fpm, emitted, am) ==
    IF Len(pls) = 0
    THEN [buf |-> buf, first_parent_mark |-> None, kept |-> 0]
    ELSE
      LET acc == FinalizeScan(1, buf, pls, emitted, am,
                     [replacements |-> << >>, seen_canonical |-> {},
                      first_kept_mark |-> None, first_kept_idx |-> None,
                      kept_count |-> 0])
      IN [buf |-> FinalizeRebuild(1, buf, pls, acc.replacements,
                                  acc.first_kept_idx, << >>, 0),
          first_parent_mark |-> acc.first_kept_mark,
          kept |-> acc.kept_count]

(* ---- the state after construction ---- *)
NoLast == [kind |-> "none", in_parents |-> << >>, kept |-> FALSE, mark |-> None,
           oid |-> None, changes |-> FALSE, emitted |-> {}, aliases |-> << >>,
           defined |-> {}, out_len |-> 0, pairs |-> << >>]

Options == [prune_empty : PruneModes, prune_degenerate : PruneModes, no_ff : BOOLEAN]

\* the combinations under which the long streams are run: each prune mode off
\* and on
PruningOptions == [prune_empty : {"Never", "Auto"}, prune_degenerate : {"Never", "Auto"},
                   no_ff : {FALSE}]

Init ==
    /\ \/ opts \in Options /\ stream_len = MaxOptRecords
       \/ opts \in PruningOptions /\ stream_len = MaxRecords
    /\ pc = "top"
    /\ n_in = 0
    /\ n_tags = 0
    /\ commit_buf = << >>
    /\ commit_has_changes = FALSE
    /\ commit_mark = None
    /\ first_parent_mark = None
    /\ commit_original_oid = None
    /\ parent_count = 0
    /\ parent_lines = << >>
    /\ commit_pairs = << >>
    /\ alias_map = << >>
    /\ emitted_marks = {}
    /\ updated_refs = {}
    /\ written = << >>
    /\ out_len = 0
    /\ out_marks = {}
    /\ pruned = {}
    /\ via = {}
    /\ last = NoLast
    /\ SideIdle

\* the commit handlers' state in a run that is given no commit
StreamIdle ==
    /\ opts = [prune_empty |-> "Never", prune_degenerate |-> "Never", no_ff |-> FALSE]
    /\ stream_len = 0
    /\ pc = "top"
    /\ n_in = 0
    /\ n_tags = 0
    /\ commit_buf = << >>
    /\ commit_has_changes = FALSE
    /\ commit_mark = None
    /\ first_parent_mark = None
    /\ commit_original_oid = None
    /\ parent_count = 0
    /\ parent_lines = << >>
    /\ commit_pairs = << >>
    /\ alias_map = << >>
    /\ written = << >>
    /\ out_len = 0
    /\ out_marks = {}
    /\ pruned = {}
    /\ via = {}
    /\ last = NoLast

\* no mark emitted, no ref updated
SharedIdle == emitted_marks = {} /\ updated_refs = {}

\* everything but refs_vars at rest
RefsElseIdle ==
    /\ StreamIdle
    /\ BuildIdle
    /\ PathIdle
    /\ FcIdle
    /\ ReplIdle
    /\ HashIdle
    /\ LinesIdle
    /\ GlobIdle
    /\ RulesIdle
    /\ MailmapIdle

\* everything but path_vars and the build at rest
PathElseIdle ==
    /\ StreamIdle
    /\ SharedIdle
    /\ RefsIdle
    /\ FcIdle
    /\ ReplIdle
    /\ HashIdle
    /\ LinesIdle
    /\ GlobIdle
    /\ RulesIdle
    /\ MailmapIdle

\* everything but fc_vars and the build at rest
FcElseIdle ==
    /\ StreamIdle
    /\ SharedIdle
    /\ RefsIdle
    /\ PathIdle
    /\ ReplIdle
    /\ HashIdle
    /\ LinesIdle
    /\ GlobIdle
    /\ RulesIdle
    /\ MailmapIdle

\* everything but repl_vars at rest
ReplElseIdle ==
    /\ StreamIdle
    /\ SharedIdle
    /\ RefsIdle
    /\ BuildIdle
    /\ PathIdle
    /\ FcIdle
    /\ HashIdle
    /\ LinesIdle
    /\ GlobIdle
    /\ RulesIdle
    /\ MailmapIdle

\* everything but hash_vars at rest
HashElseIdle ==
    /\ StreamIdle
    /\ SharedIdle
    /\ RefsIdle
    /\ BuildIdle
    /\ PathIdle
    /\ FcIdle
    /\ ReplIdle
    /\ LinesIdle
    /\ GlobIdle
    /\ RulesIdle
    /\ MailmapIdle

\* everything but lines_vars at rest
LinesElseIdle ==
    /\ StreamIdle
    /\ SharedIdle
    /\ RefsIdle
    /\ BuildIdle
    /\ PathIdle
    /\ FcIdle
    /\ ReplIdle
    /\ HashIdle
    /\ GlobIdle
    /\ RulesIdle
    /\ MailmapIdle

\* everything but glob_vars at rest
GlobElseIdle ==
    /\ StreamIdle
    /\ SharedIdle
    /\ RefsIdle
    /\ BuildIdle
    /\ PathIdle
    /\ FcIdle
    /\ ReplIdle
    /\ HashIdle
    /\ LinesIdle
    /\ RulesIdle
    /\ MailmapIdle

\* everything but rules_vars at rest
RulesElseIdle ==
    /\ StreamIdle
    /\ SharedIdle
    /\ RefsIdle
    /\ BuildIdle
    /\ PathIdle
    /\ FcIdle
    /\ ReplIdle
    /\ HashIdle
    /\ LinesIdle
    /\ GlobIdle
    /\ MailmapIdle

\* everything but mailmap_vars at rest
MailmapElseIdle ==
    /\ StreamIdle
    /\ SharedIdle
    /\ RefsIdle
    /\ BuildIdle
    /\ PathIdle
    /\ FcIdle
    /\ ReplIdle
    /\ HashIdle
    /\ LinesIdle
    /\ GlobIdle
    /\ RulesIdle

InCommit == pc \in {"hdr", "marked", "oid", "parents", "changes"}

\* variant: the insert with key and value exchanged
MapInsertSwapped(f, k, v) == [x \in DOMAIN f \cup {v} |-> IF x = v THEN k ELSE f[x]]

\* HashMap::insert
MapInsert(f, k, v) == [x \in DOMAIN f \cup {k} |-> IF x = k THEN v ELSE f[x]]

\* the marks a record defines downstream: the `mark :<n>` lines of a commit or
\* of a tag block (an alias stanza names a mark, and defines no object)
MarksDefined(rec) ==
    IF Len(rec) > 0 /\ rec[1].t \in {"commit", "tag"}
    THEN {rec[i].n : i \in {j \in 1 .. Len(rec) : rec[j].t = "mark"}}
    ELSE {}

\* filt_file.write_all(rec) and fi.write_all(rec): one record goes downstream
WriteAll(rec) ==
    /\ written' = rec
    /\ out_len' = out_len + 1
    /\ out_marks' = out_marks \cup MarksDefined(rec)

(* ---- commit.rs: start_commit, on a `commit <ref>` line ---- *)
StartCommit ==
    /\ pc = "top"
    /\ n_in < stream_len
    /\ n_in' = n_in + 1
    /\ commit_has_changes' = FALSE
    /\ commit_mark' = None
    /\ first_parent_mark' = None
    /\ parent_lines' = << >>
    /\ commit_buf' = << Line("commit", FALSE, 0) >>
    /\ pc' = "hdr"
    /\ written' = << >>
    /\ last' = NoLast
    /\ UNCHANGED << opts, stream_len, n_tags, commit_original_oid, parent_count, commit_pairs,
                    alias_map, emitted_marks, updated_refs, out_len, out_marks,
                    pruned, via >>
    /\ UNCHANGED side_vars

(* ---- commit.rs: process_commit_line, `mark :<n>` ---- *)
MarkLine ==
    /\ pc = "hdr"
    /\ LET line == Line("mark", TRUE, n_in) IN
       /\ commit_buf' = Append(commit_buf, line)
       /\ commit_mark' = Some(line.n)
    /\ pc' = "marked"
    /\ UNCHANGED << opts, stream_len, n_in, n_tags, commit_has_changes, first_parent_mark,
                    commit_original_oid, parent_count, parent_lines, commit_pairs,
                    alias_map, emitted_marks, updated_refs, written, out_len,
                    out_marks, pruned, via, last >>
    /\ UNCHANGED side_vars

(* ---- commit.rs: process_commit_line, `original-oid <hex>` ---- *)
OriginalOidLine ==
    /\ pc \in {"hdr", "marked"}
    /\ LET line == Line("original-oid", FALSE, n_in) IN
       /\ commit_original_oid' = Some(line.n)
       /\ commit_buf' = Append(commit_buf, line)
    /\ pc' = "oid"
    /\ UNCHANGED << opts, stream_len, n_in, n_tags, commit_has_changes, commit_mark,
                    first_parent_mark, parent_count, parent_lines, commit_pairs,
                    alias_map, emitted_marks, updated_refs, written, out_len,
                    out_marks, pruned, via, last >>
    /\ UNCHANGED side_vars

\* the targets a parent line of the input may name: the mark of an earlier
\* record, the commit's own number (a mark nothing has defined yet), or a raw
\* object id
ParentTargets == ({TRUE} \X (1 .. n_in)) \cup ({FALSE} \X RawOids)

(* ---- commit.rs: process_commit_line, `from ...` ---- *)
FromLine ==
    /\ pc \in {"hdr", "marked", "oid", "parents"}
    /\ Len(parent_lines) < MaxParents
    /\ \E tgt \in ParentTargets :
         LET line == Line("from", tgt[1], tgt[2])
             start == Len(commit_buf)
             end == Len(commit_buf) + 1
         IN
         /\ first_parent_mark' =
                IF first_parent_mark = None /\ IsSome(parse_from_mark(line))
                THEN parse_from_mark(line)
                ELSE first_parent_mark
         /\ commit_buf' = Append(commit_buf, line)
         /\ parent_lines' = Append(parent_lines,
                                ParentLine(start, end, parse_from_mark(line), "From"))
         /\ parent_count' = Len(parent_lines')
    /\ pc' = "parents"
    /\ UNCHANGED << opts, stream_len, n_in, n_tags, commit_has_changes, commit_mark,
                    commit_original_oid, commit_pairs, alias_map, emitted_marks,
                    updated_refs, written, out_len, out_marks, pruned, via, last >>
    /\ UNCHANGED side_vars

(* ---- commit.rs: process_commit_line, `merge ...` ---- *)
MergeLine ==
    /\ pc \in {"hdr", "marked", "oid", "parents"}
    /\ Len(parent_lines) < MaxParents
    /\ \E tgt \in ParentTargets :
         LET line == Line("merge", tgt[1], tgt[2])
             start == Len(commit_buf)
             end == Len(commit_buf) + 1
         IN
         /\ commit_buf' = Append(commit_buf, line)
         /\ parent_lines' = Append(parent_lines,
                                ParentLine(start, end, parse_merge_mark(line), "Merge"))
         /\ parent_count' = Len(parent_lines')
    /\ pc' = "parents"
    /\ UNCHANGED << opts, stream_len, n_in, n_tags, commit_has_changes, commit_mark,
                    first_parent_mark, commit_original_oid, commit_pairs, alias_map,
                    emitted_marks, updated_refs, written, out_len, out_marks,
                    pruned, via, last >>
    /\ UNCHANGED side_vars

\* filechange.rs: handle_file_change_line returns the line to write, or None to
\* drop it; `deleteall` is always kept, any other directive iff its path
\* passes the filter (an input of the step here)
handle_file_change_line(fc, passes) ==
    IF fc = "deleteall" THEN Some(Line("deleteall", FALSE, 0))
    ELSE IF passes THEN Some(Line(fc, FALSE, 0))
    ELSE None

(* ---- commit.rs: process_commit_line, `M` / `D` / `C` / `R` / `deleteall` ---- *)
FileChangeLine ==
    /\ pc \in {"hdr", "marked", "oid", "parents"}
    /\ \E fc \in {"M", "deleteall"}, passes \in BOOLEAN :
         LET newline == handle_file_change_line(fc, passes) IN
         IF IsSome(newline)
         THEN /\ commit_buf' = Append(commit_buf, Unwrap(newline))
              /\ commit_has_changes' = TRUE
              /\ pc' = "changes"
         ELSE UNCHANGED << commit_buf, commit_has_changes, pc >>
    /\ UNCHANGED << opts, stream_len, n_in, n_tags, commit_mark, first_parent_mark,
                    commit_original_oid, parent_count, parent_lines, commit_pairs,
                    alias_map, emitted_marks, updated_refs, written, out_len,
                    out_marks, pruned, via, last >>
    /\ UNCHANGED side_vars

\* The emitted-marks set is "the set of marks actually written downstream":
\* the stream driver adds the mark of a commit that was written, and never
\* the mark of a pruned one.
RecordEmitted(emitted, keep, cmark) ==
    IF keep /\ IsSome(cmark) THEN emitted \cup {Unwrap(cmark)} ELSE emitted

\* commit.rs 258-262: the pair recorded for a kept commit
KeptPair(pairs, oid, cmark) ==
    IF IsSome(oid) /\ IsSome(cmark)
    THEN Append(pairs, << Unwrap(oid), cmark >>)
    ELSE pairs

\* variant: a pruned commit records no pair
PrunedPairSkipped(pairs, oid) == pairs

\* commit.rs 264-266: the pair recorded for a pruned commit
PrunedPair(pairs, oid) ==
    IF IsSome(oid) THEN Append(pairs, << Unwrap(oid), None >>) ELSE pairs

\* commit.rs 268-270: a pruned commit is aliased only if it has a mark, a
\* first-parent mark, and the canonical form of that parent was emitted
AliasTarget(cmark, fpm, emitted, am) ==
    IF IsSome(cmark) /\ IsSome(fpm)
       /\ resolve_canonical_mark(Unwrap(fpm), am) \in emitted
    THEN Some(resolve_canonical_mark(Unwrap(fpm), am))
    ELSE None

(* ---- commit.rs: process_commit_line, the blank line ending a commit ---- *)
EndCommit ==
    /\ InCommit
    /\ LET original_parents == Len(parent_lines)
           fin == finalize_parent_lines(commit_buf, parent_lines, first_parent_mark,
                                        emitted_marks, alias_map)
           kept_parents == fin.kept
           was_merge == original_parents >= 2
           is_degenerate == was_merge /\ kept_parents < 2
           keep == should_keep_commit(commit_has_changes, fin.first_parent_mark,
                                      commit_mark, kept_parents, was_merge,
                                      is_degenerate, opts)
           target == AliasTarget(commit_mark, fin.first_parent_mark, emitted_marks,
                                 alias_map)
       IN
       /\ parent_count' = kept_parents
       /\ parent_lines' = << >>
       /\ first_parent_mark' = fin.first_parent_mark
       /\ commit_original_oid' = None
       /\ IF keep
          THEN /\ commit_buf' = Append(fin.buf, Line("end", FALSE, 0))
               /\ WriteAll(commit_buf')
               /\ commit_pairs' = KeptPair(commit_pairs, commit_original_oid, commit_mark)
               /\ UNCHANGED << alias_map, pruned, via >>
          ELSE /\ commit_buf' = fin.buf
               /\ commit_pairs' = PrunedPair(commit_pairs, commit_original_oid)
               /\ IF IsSome(target)
                  THEN /\ alias_map' = MapInsert(alias_map, Unwrap(commit_mark),
                                                 Unwrap(target))
                       /\ WriteAll(build_alias(Unwrap(commit_mark), Unwrap(target)))
                  ELSE /\ written' = << >>
                       /\ UNCHANGED << alias_map, out_len, out_marks >>
               /\ pruned' = IF IsSome(commit_mark)
                            THEN pruned \cup {Unwrap(commit_mark)}
                            ELSE pruned
               /\ via' = IF IsSome(commit_mark) /\ Len(parent_lines) > 0
                            /\ IsSome(parent_lines[1].mark)
                            /\ Unwrap(parent_lines[1].mark) \in pruned
                         THEN via \cup {Unwrap(commit_mark)}
                         ELSE via
       /\ emitted_marks' = RecordEmitted(emitted_marks, keep, commit_mark)
       /\ last' = [kind |-> "commit",
                   in_parents |-> [i \in 1 .. Len(parent_lines) |->
                                      commit_buf[parent_lines[i].start + 1]],
                   kept |-> keep, mark |-> commit_mark, oid |-> commit_original_oid,
                   changes |-> commit_has_changes, emitted |-> emitted_marks,
                   aliases |-> alias_map, defined |-> out_marks,
                   out_len |-> out_len,
                   pairs |-> commit_pairs]
    /\ pc' = "top"
    /\ UNCHANGED << opts, stream_len, n_in, n_tags, commit_has_changes, commit_mark, updated_refs >>
    /\ UNCHANGED side_vars

TagNames == {1}

(* ---- tag.rs: process_tag_block, an annotated tag block up to its data ---- *)
TagBlock ==
    /\ pc = "top"
    /\ n_in >= 1
    /\ n_in < stream_len
    /\ n_tags < MaxTags
    /\ n_in' = n_in + 1
    /\ n_tags' = n_tags + 1
    /\ \E tagname \in TagNames, from \in 1 .. n_in, with_mark \in BOOLEAN :
         LET hdrs == (IF with_mark THEN << Line("mark", TRUE, n_in + 1) >> ELSE << >>)
                     \o << Line("from", TRUE, from) >>
             renamed == tagname
             target_ref == renamed
             hdr_marks == {hdrs[i].n : i \in {j \in 1 .. Len(hdrs) : hdrs[j].t = "mark"}}
         IN
         IF target_ref \in updated_refs
         THEN /\ written' = << >>
              /\ UNCHANGED << updated_refs, out_len, out_marks, emitted_marks >>
         ELSE /\ updated_refs' = updated_refs \cup {target_ref}
              /\ WriteAll(<< Line("tag", FALSE, renamed) >> \o hdrs
                              \o << Line("data", FALSE, 0) >>)
              /\ emitted_marks' = emitted_marks \cup hdr_marks
    /\ last' = NoLast
    /\ UNCHANGED << opts, stream_len, pc, commit_buf, commit_has_changes, commit_mark,
                    first_parent_mark, commit_original_oid, parent_count, parent_lines,
                    commit_pairs, alias_map, pruned, via >>
    /\ UNCHANGED side_vars

Next ==
    \/ StartCommit
    \/ MarkLine
    \/ OriginalOidLine
    \/ FromLine
    \/ MergeLine
    \/ FileChangeLine
    \/ EndCommit
    \/ TagBlock

Spec == Init /\ [][Next]_vars

(***************************************************************************)
(* Vocabulary of the properties.  `last` holds what the commit whose       *)
(* terminator was processed last was given (its input parent lines, its    *)
(* mark and original oid) and the state it was finalized in; `written` is  *)
(* the record that step wrote downstream.                                  *)
(***************************************************************************)
IsParentLine(l) == l.t \in {"from", "merge"}

\* the last step terminated a commit / and wrote it downstream / and pruned it
LastCommit == pc = "top" /\ last.kind = "commit"
LastCommitWritten == LastCommit /\ last.kept
LastCommitPruned == LastCommit /\ ~last.kept

\* the parent lines of the commit written by the last step
WrittenParents == SelectSeq(written, IsParentLine)
WrittenParentMarks ==
    {WrittenParents[i].n : i \in {j \in 1 .. Len(WrittenParents) : WrittenParents[j].ismark}}

\* the marks the input parent lines of the last commit name
InputParentMarks ==
    {last.in_parents[i].n :
        i \in {j \in 1 .. Len(last.in_parents) : last.in_parents[j].ismark}}

\* alias resolution in the alias table the last commit was finalized with
Canon(m) == resolve_canonical_mark(m, last.aliases)

\* the input parent lines of the last commit that name a mark whose canonical
\* form had been emitted
RetainedMarkLines ==
    {j \in 1 .. Len(last.in_parents) :
        last.in_parents[j].ismark /\ Canon(last.in_parents[j].n) \in last.emitted}

\* C1: every `from :N` / `merge :N` line of a written commit names a mark that
\* was in the emitted-marks set when the commit was finalized, the
\* emitted-marks set being the marks of the commits and tags written
\* downstream before; the marks written are the canonical forms of the input
\* parent marks, and an input parent whose canonical form is not in the set
\* is not written.
C1_MarkMonotonicity ==
    /\ emitted_marks = out_marks
    /\ LastCommitWritten =>
         /\ WrittenParentMarks \subseteq last.emitted
         /\ WrittenParentMarks \subseteq last.defined
         /\ WrittenParentMarks = {Canon(m) : m \in InputParentMarks} \cap last.emitted

\* C1 witness: a written commit one of whose input parents was rewritten to
\* its canonical mark and another dropped as not emitted
C1_Witness ==
    /\ LastCommitWritten
    /\ \E m \in InputParentMarks : Canon(m) # m /\ Canon(m) \in WrittenParentMarks
    /\ \E m \in InputParentMarks : Canon(m) \notin last.emitted

C3_FirstFromOthersMerge ==
    (LastCommitWritten /\ Len(WrittenParents) >= 1) =>
        /\ WrittenParents[1].t = "from"
        /\ \A i \in 2 .. Len(WrittenParents) : WrittenParents[i].t = "merge"

\* C3 as amended: the first written parent line begins with `from`; every
\* other one keeps the keyword of an input parent line after the first, so
\* it begins with `merge` when every input parent line after the first does.
C3_FirstFromOthersKeepKind ==
    (LastCommitWritten /\ Len(WrittenParents) >= 1) =>
        /\ WrittenParents[1].t = "from"
        /\ \A i \in 2 .. Len(WrittenParents) :
             \E j \in 2 .. Len(last.in_parents) :
                 /\ last.in_parents[j].t = WrittenParents[i].t
                 /\ last.in_parents[j].ismark = WrittenParents[i].ismark
                 /\ WrittenParents[i].n = IF WrittenParents[i].ismark
                                          THEN Canon(last.in_parents[j].n)
                                          ELSE last.in_parents[j].n
        /\ (\A j \in 2 .. Len(last.in_parents) : last.in_parents[j].t = "merge")
              => \A i \in 2 .. Len(WrittenParents) : WrittenParents[i].t = "merge"

\* C3 witness: the first input parent was dropped and the `merge` line after
\* it was written as `from`
C3_Witness ==
    /\ LastCommitWritten
    /\ Len(last.in_parents) >= 2
    /\ 1 \notin RetainedMarkLines /\ last.in_parents[1].ismark
    /\ last.in_parents[2].t = "merge"
    /\ Len(WrittenParents) = 1
    /\ WrittenParents[1].t = "from"

\* C4: no two written parent lines of one commit denote the same parent.
C4_NoDuplicateParents ==
    LastCommitWritten =>
        \A i, j \in 1 .. Len(WrittenParents) :
            i # j => << WrittenParents[i].ismark, WrittenParents[i].n >>
                     # << WrittenParents[j].ismark, WrittenParents[j].n >>

\* the canonical first parent of the last commit: the canonical mark of the
\* first input parent line that names a mark whose canonical form was emitted
HasCanonicalFirstParent == RetainedMarkLines # {}
CanonicalFirstParent ==
    Canon(last.in_parents[
        CHOOSE j \in RetainedMarkLines : \A k \in RetainedMarkLines : j <= k].n)

\* C5: when a commit with own mark M is pruned and its canonical first parent C
\* was emitted, M -> C is added to the alias table and the stanza
\* `alias` / `mark :M` / `to :C` is the one record written for the commit,
\* right after the records written before it; nothing else of the commit is
\* written, and M defines no object downstream.
C5_AliasAtPrunedPosition ==
    (LastCommitPruned /\ IsSome(last.mark) /\ HasCanonicalFirstParent) =>
        LET M == Unwrap(last.mark)
            C == CanonicalFirstParent
        IN
        /\ C \in last.emitted
        /\ alias_map = MapInsert(last.aliases, M, C)
        /\ written = << Line("alias", FALSE, 0), Line("mark", TRUE, M),
                        Line("to", TRUE, C), Line("end", FALSE, 0) >>
        /\ out_len = last.out_len + 1
        /\ out_marks = last.defined
        /\ emitted_marks = last.emitted

\* C5 witness: a pruned commit whose first input parent was itself an alias,
\* after two records had been written
C5_Witness ==
    /\ LastCommitPruned
    /\ IsSome(last.mark)
    /\ HasCanonicalFirstParent
    /\ CanonicalFirstParent # last.in_parents[1].n
    /\ last.out_len >= 2

\* C6: a written commit whose input parent line names a pruned commit B has
\* that parent rewritten to the emitted commit B is aliased to, and not
\* dropped; a pruned commit whose first input parent is a pruned commit B is
\* aliased to the same emitted commit as B; so every pruned mark resolves to
\* an emitted mark.
C6_PrunedParentRewritten ==
    /\ LastCommitWritten =>
         \A m \in InputParentMarks \cap pruned :
             /\ m \in DOMAIN last.aliases
             /\ last.aliases[m] \in last.emitted
             /\ last.aliases[m] \in WrittenParentMarks
             /\ m \notin WrittenParentMarks
    /\ (LastCommitPruned /\ Len(last.in_parents) >= 1 /\ last.in_parents[1].ismark
           /\ last.in_parents[1].n \in DOMAIN last.aliases) =>
         /\ Unwrap(last.mark) \in DOMAIN alias_map
         /\ alias_map[Unwrap(last.mark)] = last.aliases[last.in_parents[1].n]
    /\ \A b \in pruned :
         /\ b \in DOMAIN alias_map
         /\ alias_map[b] \in emitted_marks
         /\ resolve_canonical_mark(b, alias_map) = alias_map[b]

\* C6 witness: a written commit whose input parent is the second commit of a
\* chain of pruned commits, written with the emitted ancestor of the chain
C6_Witness ==
    /\ LastCommitWritten
    /\ \E m \in InputParentMarks \cap via : alias_map[m] \in WrittenParentMarks

\* C7 as claimed: a commit that carries an original-oid line appends exactly
\* one pair at its terminator: (oid, Some(own mark)) if kept, (oid, None) if
\* pruned.
C7_OnePairPerCommit ==
    (LastCommit /\ IsSome(last.oid)) =>
        commit_pairs = Append(last.pairs,
                              << Unwrap(last.oid), IF last.kept THEN last.mark ELSE None >>)
        /\ (last.kept => IsSome(last.mark))

\* C7 as amended: a commit that carries an original-oid line appends, at its
\* terminator, (oid, None) if it is pruned, (oid, Some(own mark)) if it is
\* kept and has a mark line, and nothing if it is kept and has no mark line;
\* the pairs recorded before are left as they were.
C7_PairPerMarkedCommit ==
    (LastCommit /\ IsSome(last.oid)) =>
        IF ~last.kept
        THEN commit_pairs = Append(last.pairs, << Unwrap(last.oid), None >>)
        ELSE IF IsSome(last.mark)
        THEN commit_pairs = Append(last.pairs, << Unwrap(last.oid), last.mark >>)
        ELSE commit_pairs = last.pairs

\* C7 witness: a pruned commit recorded after a kept one
C7_Witness ==
    /\ LastCommitPruned
    /\ IsSome(last.oid)
    /\ Len(commit_pairs) >= 2
    /\ IsSome(commit_pairs[1][2])
    /\ commit_pairs[Len(commit_pairs)] = << Unwrap(last.oid), None >>

\* C8: under every combination of the options a commit is kept if, after
\* parent finalization, it has no first-parent mark, or no own mark, or a
\* surviving file change (a `deleteall` is one), or two or more parents.
C8_AlwaysKept ==
    LastCommit =>
        /\ (first_parent_mark = None => last.kept)
        /\ (Len(last.in_parents) = 0 => last.kept)
        /\ (RetainedMarkLines = {} => last.kept)
        /\ (last.mark = None => last.kept)
        /\ (last.changes => last.kept)
        /\ ((\E i \in 1 .. Len(commit_buf) : commit_buf[i].t \in {"M", "deleteall"})
               => last.kept)
        /\ (parent_count >= 2 => last.kept)

\* C8 witness: with both prune modes `always` and no-ff unset, a commit with a
\* mark, a first-parent mark and no file change is kept for its two parents
C8_Witness ==
    /\ LastCommitWritten
    /\ opts = [prune_empty |-> "Always", prune_degenerate |-> "Always", no_ff |-> FALSE]
    /\ IsSome(last.mark) /\ IsSome(first_parent_mark) /\ ~last.changes
    /\ parent_count >= 2

\* the last commit has a mark, a first-parent mark and no surviving file change
EmptyCandidate ==
    LastCommit /\ IsSome(last.mark) /\ IsSome(first_parent_mark) /\ ~last.changes

\* C9: a commit with two or more input parent lines that retains fewer than
\* two, has a mark, a first-parent mark and no surviving file change is kept
\* iff no-ff is set or prune-degenerate = never, whatever prune-empty is.
C9_DegenerateMerge ==
    (EmptyCandidate /\ Len(last.in_parents) >= 2 /\ parent_count < 2) =>
        (last.kept <=> (opts.no_ff \/ opts.prune_degenerate = "Never"))

\* C9 witness: a degenerate merge pruned although prune-empty = never
C9_Witness ==
    /\ EmptyCandidate /\ Len(last.in_parents) >= 2 /\ parent_count < 2
    /\ ~last.kept
    /\ opts.prune_empty = "Never"
    /\ opts.prune_degenerate = "Always"

\* C10: a commit with at most one input parent line that has a mark, a
\* first-parent mark and no surviving file change is kept iff
\* prune-empty = never, whatever prune-degenerate and no-ff are.
C10_EmptyCommit ==
    (EmptyCandidate /\ Len(last.in_parents) <= 1) =>
        (last.kept <=> opts.prune_empty = "Never")

\* C10 witness: an empty commit pruned although no-ff is set and
\* prune-degenerate = never
C10_Witness ==
    /\ EmptyCandidate /\ Len(last.in_parents) <= 1
    /\ ~last.kept
    /\ opts.no_ff /\ opts.prune_degenerate = "Never"
    /\ opts.prune_empty = "Always"

(***************************************************************************)
(* Header-level handlers.  Ref names are byte strings; a line of the       *)
(* stream is its keyword, its byte-string argument and its number.         *)
(***************************************************************************)
MaxCalls == 3

\* b"refs/tags/" and b"refs/heads/"
RefsTags == << 114, 101, 102, 115, 47, 116, 97, 103, 115, 47 >>
RefsHeads == << 114, 101, 102, 115, 47, 104, 101, 97, 100, 115, 47 >>

\* the names of the input: "v1", "x1", "1"
Names == { << 118, 49 >>, << 120, 49 >>, << 49 >> }

\* the rename rules of a run: none, v -> x, v -> (empty), v -> v
RenameRules == { None, Some(<< << 118 >>, << 120 >> >>), Some(<< << 118 >>, << >> >>),
                 Some(<< << 118 >>, << 118 >> >>) }
BranchRenameRules == { None, Some(<< << 118 >>, << 120 >> >>) }

RLine(t, ref, n) == [t |-> t, ref |-> ref, n |-> n]

\* slice::starts_with
StartsWith(s, p) == Len(p) <= Len(s) /\ SubSeq(s, 1, Len(p)) = p

\* &s[k..]
Tail_from(s, k) == SubSeq(s, k + 1, Len(s))

\* commit.rs 28-68: the ref a `commit <ref>` header is written with, and the
\* entry it adds to ref_renames
rename_commit_header_ref(refname, tr, br) ==
    IF StartsWith(refname, RefsTags) /\ IsSome(tr)
       /\ StartsWith(Tail_from(refname, Len(RefsTags)), Unwrap(tr)[1])
    THEN LET name == Tail_from(refname, Len(RefsTags))
             new_full == RefsTags \o Unwrap(tr)[2] \o Tail_from(name, Len(Unwrap(tr)[1]))
         IN [ref |-> new_full, renames |-> {<< refname, new_full >>}]
    ELSE IF StartsWith(refname, RefsHeads) /\ IsSome(br)
            /\ StartsWith(Tail_from(refname, Len(RefsHeads)), Unwrap(br)[1])
    THEN LET name == Tail_from(refname, Len(RefsHeads))
             new_full == RefsHeads \o Unwrap(br)[2] \o Tail_from(name, Len(Unwrap(br)[1]))
         IN [ref |-> new_full, renames |-> {<< refname, new_full >>}]
    ELSE [ref |-> refname, renames |-> {}]

\* variant: the tag name is written as it came
rename_tag_unrenamed(tagname, tr) == tagname

\* tag.rs 85-92: the name a tag block is written under
rename_tag(tagname, tr) ==
    IF IsSome(tr) /\ StartsWith(tagname, Unwrap(tr)[1])
    THEN Unwrap(tr)[2] \o Tail_from(tagname, Len(Unwrap(tr)[1]))
    ELSE tagname

\* variant: the dedupe test never finds the target
tag_target_unseen(target_ref, updated) == FALSE

\* tag.rs 96: the dedupe test of an annotated tag
tag_target_seen(target_ref, updated) == target_ref \in updated

\* a `data <n>` header of the input: its number parses as usize or does not
\* (not a number, or a number past usize::MAX)
MAX_DATA_BLOCK_SIZE == 500 * 1024 * 1024

DataHeaders ==
    { [parses |-> TRUE, n |-> 0], [parses |-> TRUE, n |-> 3],
      [parses |-> TRUE, n |-> MAX_DATA_BLOCK_SIZE],
      [parses |-> TRUE, n |-> MAX_DATA_BLOCK_SIZE + 1],
      [parses |-> FALSE, n |-> 0] }

Ok(n) == [ok |-> TRUE, n |-> n, err |-> "none"]
Err(e) == [ok |-> FALSE, n |-> 0, err |-> e]

\* limits.rs: parse_data_size_header
parse_data_size_header(h) ==
    IF ~h.parses THEN Err("invalid data header")
    ELSE IF h.n > MAX_DATA_BLOCK_SIZE THEN Err("exceeds maximum allowed size")
    ELSE Ok(h.n)

\* tag.rs 73-77: the size of a tag message, parsed in place
parse_tag_data_size(h) ==
    IF ~h.parses THEN Err("invalid data header") ELSE Ok(h.n)

Running == failed = "none" /\ n_rec < MaxCalls /\ pending_tag_reset = None

\* a handler runs on the line the driver hands it: a line that follows a
\* `reset refs/tags/..` header is offered to maybe_capture_pending_tag_reset
\* first
\* the state a handler call found, kept for the properties
Before ==
    [ref_renames |-> ref_renames, updated_refs |-> updated_refs,
     emitted_marks |-> emitted_marks, allocated |-> allocated,
     downstream |-> downstream, buffered |-> buffered_tag_resets,
     pending |-> pending_tag_reset]

InitRefs ==
    /\ tag_rename \in RenameRules
    /\ branch_rename \in BranchRenameRules
    /\ downstream = << >>
    /\ ref_renames = {}
    /\ annotated_tag_refs = {}
    /\ pending_tag_reset = None
    /\ buffered_tag_resets = << >>
    /\ allocated = << >>
    /\ failed = "none"
    /\ fi_results = {"ok"}
    /\ import_broken = FALSE
    /\ n_rec = 0
    /\ last_call = NoCall
    /\ emitted_marks = {}
    /\ updated_refs = {}
    /\ RefsElseIdle

(* ---- commit.rs: start_commit, the `commit <ref>` header ---- *)
CommitHeader ==
    /\ Running
    /\ \E prefix \in {RefsTags, RefsHeads}, name \in Names :
         LET refname == prefix \o name
             r == rename_commit_header_ref(refname, tag_rename, branch_rename)
         IN
         /\ ref_renames' = ref_renames \cup r.renames
         /\ downstream' = Append(downstream, RLine("commit", r.ref, 0))
         /\ last_call' = [kind |-> "commit", ref |-> refname, name |-> name,
                          prefix |-> prefix, out |-> << RLine("commit", r.ref, 0) >>,
                          before |-> Before]
    /\ n_rec' = n_rec + 1
    /\ UNCHANGED << tag_rename, branch_rename, annotated_tag_refs, pending_tag_reset,
                    buffered_tag_resets, allocated, failed, fi_results, import_broken,
                    emitted_marks, updated_refs >>
    /\ UNCHANGED not_refs_vars

\* the lines of a block that reach filt_file when the k-th write to the
\* importer fails (k = 0: no write fails): each line goes to filt_file first
WrittenUpTo(out, k) == IF k = 0 THEN out ELSE SubSeq(out, 1, k)

\* tag.rs 120-135: the marks recorded when the k-th write to the importer
\* fails: a header's mark is recorded after the header's own write
MarksUpTo(out, k) ==
    {out[i].n : i \in {j \in 1 .. Len(out) : out[j].t = "mark" /\ (k = 0 \/ j < k)}}

(* ---- tag.rs: process_tag_block, a whole annotated tag block ---- *)
process_tag_block ==
    /\ Running
    /\ \E tagname \in Names, with_mark \in BOOLEAN, h \in DataHeaders :
         LET hdrs == (IF with_mark THEN << RLine("mark", << >>, n_rec + 1) >> ELSE << >>)
                     \o << RLine("from", << >>, 1) >>
             size == parse_tag_data_size(h)
             renamed == rename_tag(tagname, tag_rename)
             target_ref == RefsTags \o renamed
             old_full == RefsTags \o tagname
             out == << RLine("tag", renamed, 0) >> \o hdrs
                       \o << RLine("data", << >>, size.n) >>
             call == [kind |-> "tag", ref |-> old_full, name |-> tagname,
                      prefix |-> RefsTags, header |-> h, target |-> target_ref,
                      marks |-> MarksUpTo(out, 0), fi |-> "ok", before |-> Before]
         IN
         IF ~size.ok
         THEN /\ failed' = size.err
              /\ last_call' = call @@ [out |-> << >>]
              /\ UNCHANGED << allocated, updated_refs, annotated_tag_refs, ref_renames,
                              downstream, emitted_marks >>
         ELSE /\ allocated' = Append(allocated, size.n)
              /\ IF tag_target_seen(target_ref, updated_refs)
                 THEN /\ last_call' = call @@ [out |-> << >>]
                      /\ failed' = failed
                      /\ UNCHANGED << updated_refs, annotated_tag_refs, ref_renames,
                                      downstream, emitted_marks >>
                 ELSE /\ updated_refs' = updated_refs \cup {target_ref}
                      /\ annotated_tag_refs' = annotated_tag_refs \cup {target_ref}
                      /\ ref_renames' = IF renamed # tagname
                                        THEN ref_renames \cup {<< old_full, target_ref >>}
                                        ELSE ref_renames
                      /\ \E res \in fi_results, at \in 1 .. Len(out) :
                           LET k == IF res = "ok" THEN 0 ELSE at IN
                           /\ res = "ok" => at = 1
                           \* fi.write_all(..)?: any error is returned
                           /\ failed' = IF res = "ok" THEN failed ELSE res
                           /\ downstream' = downstream \o WrittenUpTo(out, k)
                           /\ emitted_marks' = emitted_marks \cup MarksUpTo(out, k)
                           /\ last_call' = [call EXCEPT !.fi = res]
                                              @@ [out |-> WrittenUpTo(out, k)]
    /\ n_rec' = n_rec + 1
    /\ UNCHANGED << tag_rename, branch_rename, pending_tag_reset, buffered_tag_resets,
                    fi_results, import_broken >>
    /\ UNCHANGED not_refs_vars

(* ---- tag.rs: process_reset_header, a `reset <ref>` line ---- *)
process_reset_header ==
    /\ Running
    /\ \E prefix \in {RefsTags, RefsHeads}, tagname \in Names :
         LET name == prefix \o tagname
             renames == IsSome(tag_rename) /\ StartsWith(tagname, Unwrap(tag_rename)[1])
             new_full == RefsTags \o Unwrap(tag_rename)[2]
                            \o Tail_from(tagname, Len(Unwrap(tag_rename)[1]))
             ref_full == IF renames THEN new_full ELSE name
             call == [kind |-> "reset", ref |-> name, name |-> tagname, prefix |-> prefix,
                      out |-> << >>, before |-> Before]
         IN
         IF ~StartsWith(name, RefsTags)
         THEN \* not handled here: the line is forwarded as it is
              /\ downstream' = Append(downstream, RLine("reset", name, 0))
              /\ last_call' = [call EXCEPT !.out = << RLine("reset", name, 0) >>]
              /\ UNCHANGED << ref_renames, pending_tag_reset >>
         ELSE /\ ref_renames' = IF renames THEN ref_renames \cup {<< name, new_full >>}
                                ELSE ref_renames
              /\ pending_tag_reset' = Some(ref_full)
              /\ last_call' = call
              /\ UNCHANGED downstream
    /\ n_rec' = n_rec + 1
    /\ UNCHANGED << tag_rename, branch_rename, annotated_tag_refs, buffered_tag_resets,
                    allocated, failed, fi_results, import_broken, emitted_marks,
                    updated_refs >>
    /\ UNCHANGED not_refs_vars

(* ---- tag.rs: maybe_capture_pending_tag_reset, the line after a tag reset ---- *)
maybe_capture_pending_tag_reset ==
    /\ failed = "none"
    /\ IsSome(pending_tag_reset)
    /\ \E t \in {"from", "other"}, oid \in 1 .. 2 :
         LET line == RLine(t, << >>, oid)
             ref_full == Unwrap(pending_tag_reset)
         IN
         /\ pending_tag_reset' = None
         /\ buffered_tag_resets' = IF t = "from"
                                   THEN Append(buffered_tag_resets, << ref_full, line >>)
                                   ELSE buffered_tag_resets
         /\ last_call' = [kind |-> "capture", ref |-> ref_full, line |-> line,
                          out |-> << >>, before |-> Before]
    /\ UNCHANGED << tag_rename, branch_rename, downstream, ref_renames, annotated_tag_refs,
                    allocated, failed, fi_results, import_broken, n_rec, emitted_marks,
                    updated_refs >>
    /\ UNCHANGED not_refs_vars

\* The buffered lightweight-tag resets are emitted downstream as `reset <ref>`
\* followed by the captured `from` line.
RECURSIVE ResetLines(_)
ResetLines(buffered) ==
    IF buffered = << >> THEN << >>
    ELSE << RLine("reset", Head(buffered)[1], 0), Head(buffered)[2] >>
            \o ResetLines(Tail(buffered))

(* ---- the driver, at end of stream: the buffered tag resets go downstream ---- *)
FlushTagResets ==
    /\ Running
    /\ buffered_tag_resets # << >>
    /\ downstream' = downstream \o ResetLines(buffered_tag_resets)
    /\ buffered_tag_resets' = << >>
    /\ last_call' = [kind |-> "flush", out |-> ResetLines(buffered_tag_resets),
                     before |-> Before]
    /\ n_rec' = MaxCalls
    /\ UNCHANGED << tag_rename, branch_rename, ref_renames, annotated_tag_refs,
                    pending_tag_reset, allocated, failed, fi_results, import_broken,
                    emitted_marks, updated_refs >>
    /\ UNCHANGED not_refs_vars

(* ---- commit.rs: handle_commit_data, the `data <n>` header of a commit message ---- *)
handle_commit_data ==
    /\ Running
    /\ last_call.kind = "commit"
    /\ \E h \in DataHeaders :
         LET size == parse_data_size_header(h)
             call == [kind |-> "data", header |-> h, before |-> Before]
         IN
         IF ~size.ok
         THEN /\ failed' = size.err
              /\ last_call' = call @@ [out |-> << >>]
              /\ UNCHANGED << allocated, downstream >>
         ELSE /\ allocated' = Append(allocated, size.n)
              /\ failed' = failed
              /\ downstream' = Append(downstream, RLine("data", << >>, size.n))
              /\ last_call' = call @@ [out |-> << RLine("data", << >>, size.n) >>]
    /\ n_rec' = n_rec + 1
    /\ UNCHANGED << tag_rename, branch_rename, ref_renames, annotated_tag_refs,
                    pending_tag_reset, buffered_tag_resets, fi_results, import_broken,
                    emitted_marks, updated_refs >>
    /\ UNCHANGED not_refs_vars

(* ---- commit.rs: process_commit_line, the write of a kept commit (245-257)
        or of the alias stanza of a pruned one (272-282) ---- *)
EndCommitWrite ==
    /\ Running
    /\ last_call.kind \in {"commit", "data"}
    /\ \E what \in {"end", "alias"}, res \in fi_results :
         /\ downstream' = Append(downstream, RLine(what, << >>, 0))
         /\ import_broken' = IF res = "BrokenPipe" THEN TRUE ELSE import_broken
         /\ failed' = IF res \in {"ok", "BrokenPipe"} THEN failed ELSE res
         /\ last_call' = [kind |-> "write", what |-> what, fi |-> res,
                          out |-> << RLine(what, << >>, 0) >>, before |-> Before]
    /\ n_rec' = n_rec + 1
    /\ UNCHANGED << tag_rename, branch_rename, ref_renames, annotated_tag_refs,
                    pending_tag_reset, buffered_tag_resets, allocated, fi_results,
                    emitted_marks, updated_refs >>
    /\ UNCHANGED not_refs_vars

NextRefs ==
    \/ CommitHeader
    \/ process_tag_block
    \/ process_reset_header
    \/ maybe_capture_pending_tag_reset
    \/ FlushTagResets
    \/ handle_commit_data
    \/ EndCommitWrite

SpecRefs == InitRefs /\ [][NextRefs]_vars

\* runs against an importer whose stdin may close or fail
InitPipe ==
    /\ tag_rename = None
    /\ branch_rename = None
    /\ downstream = << >>
    /\ ref_renames = {}
    /\ annotated_tag_refs = {}
    /\ pending_tag_reset = None
    /\ buffered_tag_resets = << >>
    /\ allocated = << >>
    /\ failed = "none"
    /\ fi_results = {"ok", "BrokenPipe", "Other"}
    /\ import_broken = FALSE
    /\ n_rec = 0
    /\ last_call = NoCall
    /\ emitted_marks = {}
    /\ updated_refs = {}
    /\ RefsElseIdle

SpecPipe == InitPipe /\ [][NextRefs]_vars

(***************************************************************************)
(* Vocabulary of the header-level properties.  `last_call` holds what the  *)
(* last handler call was given, what it wrote (`out`) and the state it     *)
(* found (`before`).                                                       *)
(***************************************************************************)
\* the `tag` lines written downstream so far
TagLinesOf(lines) == {i \in 1 .. Len(lines) : lines[i].t = "tag"}

\* the last call was a tag block whose data header was read
LastTagBlock == last_call.kind = "tag" /\ failed = "none"

\* the name the last call's ref is written under when the rule (old, new) applies
Renamed(name, rule) ==
    IF IsSome(rule) /\ StartsWith(name, Unwrap(rule)[1])
    THEN Unwrap(rule)[2] \o SubSeq(name, Len(Unwrap(rule)[1]) + 1, Len(name))
    ELSE name

\* C11: at most one annotated tag block is written per post-rename target
\* ref: a block whose target has not been written is written under the renamed
\* name; a later block with the same target writes nothing, adds no mark to
\* the emitted marks and no entry to the ref-rename table.
C11_TagDedup ==
    /\ \A i, j \in TagLinesOf(downstream) :
          downstream[i].ref = downstream[j].ref => i = j
    /\ updated_refs = {RefsTags \o downstream[i].ref : i \in TagLinesOf(downstream)}
    /\ LastTagBlock =>
          LET target == RefsTags \o Renamed(last_call.name, tag_rename)
              b == last_call.before
          IN
          IF target \in b.updated_refs
          THEN /\ last_call.out = << >>
               /\ downstream = b.downstream
               /\ emitted_marks = b.emitted_marks
               /\ ref_renames = b.ref_renames
          ELSE /\ last_call.out # << >>
               /\ last_call.out[1] = RLine("tag", Renamed(last_call.name, tag_rename), 0)
               /\ downstream = b.downstream \o last_call.out
               /\ emitted_marks = b.emitted_marks \cup last_call.marks

\* a marked tag block whose name was renamed onto a target written before
C11_Witness ==
    /\ LastTagBlock
    /\ RefsTags \o Renamed(last_call.name, tag_rename) \in last_call.before.updated_refs
    /\ Renamed(last_call.name, tag_rename) # last_call.name
    /\ last_call.marks # {}
    /\ last_call.out = << >>

\* the rule that applies to a ref under the given prefix
RuleFor(prefix) == IF prefix = RefsTags THEN tag_rename ELSE branch_rename

\* the name of the last call's ref starts with the old prefix of its rule
LastStartsWithOld ==
    /\ IsSome(RuleFor(last_call.prefix))
    /\ StartsWith(last_call.name, Unwrap(RuleFor(last_call.prefix))[1])

\* the ref-rename entry of the last call's ref
LastPair ==
    << last_call.ref,
       last_call.prefix \o Renamed(last_call.name, RuleFor(last_call.prefix)) >>

\* what a `commit <ref>` header and a tag reset do with their ref, and what
\* becomes of a captured reset
CommitAndResetRenaming ==
    /\ last_call.kind = "commit" =>
          /\ last_call.out = << RLine("commit", LastPair[2], 0) >>
          /\ LastStartsWithOld => LastPair \in ref_renames
          /\ ~LastStartsWithOld => ref_renames = last_call.before.ref_renames
    /\ last_call.kind = "reset" /\ last_call.prefix = RefsTags =>
          /\ pending_tag_reset = Some(LastPair[2])
          /\ LastStartsWithOld => LastPair \in ref_renames
          /\ ~LastStartsWithOld => ref_renames = last_call.before.ref_renames
    /\ last_call.kind = "capture" /\ last_call.line.t = "from" =>
          buffered_tag_resets =
              Append(last_call.before.buffered,
                     << Unwrap(last_call.before.pending), last_call.line >>)
    /\ last_call.kind = "flush" =>
          /\ Len(last_call.out) = 2 * Len(last_call.before.buffered)
          /\ \A i \in 1 .. Len(last_call.before.buffered) :
                /\ last_call.out[2 * i - 1]
                      = RLine("reset", last_call.before.buffered[i][1], 0)
                /\ last_call.out[2 * i] = last_call.before.buffered[i][2]
          /\ downstream = last_call.before.downstream \o last_call.out
    /\ last_call.kind # "none" =>
          \A pair \in last_call.before.ref_renames : pair \in ref_renames

\* C12 (as stated): every commit header, annotated tag line and tag reset
\* whose name starts with old is written with the prefix replaced, its
\* (old ref, new ref) pair is in the ref-rename table, and a ref that does
\* not start with old is written unchanged.  (Read leniently: nothing is
\* asked of a tag block whose rule maps its name to itself, nor that a block
\* whose name does not start with old be written at all.)
C12_RefRenaming ==
    /\ CommitAndResetRenaming
    /\ LastTagBlock /\ LastStartsWithOld /\ LastPair[1] # LastPair[2] =>
          /\ last_call.out # << >>
          /\ last_call.out[1] = RLine("tag", Renamed(last_call.name, tag_rename), 0)
          /\ LastPair \in ref_renames
    /\ LastTagBlock /\ ~LastStartsWithOld /\ last_call.out # << >> =>
          last_call.out[1] = RLine("tag", last_call.name, 0)

\* C12 (amended): as above for commit headers and tag resets; an annotated
\* tag block is written under the renamed name only when its target ref was
\* not written before, and it adds its pair only when it is written and the
\* renamed name differs from the name.
C12_RefRenamingAmended ==
    /\ CommitAndResetRenaming
    /\ LastTagBlock =>
          IF LastPair[2] \in last_call.before.updated_refs
          THEN /\ last_call.out = << >>
               /\ ref_renames = last_call.before.ref_renames
          ELSE /\ last_call.out # << >>
               /\ last_call.out[1] = RLine("tag", Renamed(last_call.name, tag_rename), 0)
               /\ ref_renames = IF LastPair[1] # LastPair[2]
                                THEN last_call.before.ref_renames \cup {LastPair}
                                ELSE last_call.before.ref_renames

\* a renamed branch commit was written, and the flush writes a renamed
\* lightweight tag; both pairs are in the table
C12_Witness ==
    /\ last_call.kind = "flush"
    /\ \E i \in 1 .. Len(last_call.out) :
          /\ last_call.out[i].t = "reset"
          /\ \E pair \in ref_renames :
                pair[2] = last_call.out[i].ref /\ pair[1] # pair[2]
                   /\ StartsWith(pair[1], RefsTags)
    /\ \E i \in 1 .. Len(downstream) :
          /\ downstream[i].t = "commit"
          /\ \E pair \in ref_renames :
                pair[2] = downstream[i].ref /\ pair[1] # pair[2]
                   /\ StartsWith(pair[1], RefsHeads)

\* the last call read a `data <n>` header whose number parses
LastReadData == last_call.kind \in {"data", "tag"} /\ last_call.header.parses

\* C18: a `data N` header with N above the 500 MiB ceiling, of a commit
\* message and of an annotated tag message alike, is rejected with the error
\* "exceeds maximum allowed size" before any buffer is allocated; every N up
\* to the ceiling is accepted.
C18_DataSizeCeiling ==
    LastReadData =>
        IF last_call.header.n > MAX_DATA_BLOCK_SIZE
        THEN /\ failed = "exceeds maximum allowed size"
             /\ allocated = last_call.before.allocated
        ELSE /\ failed = "none"
             /\ allocated = Append(last_call.before.allocated, last_call.header.n)

\* the last call wrote a record to the importer's stdin: a kept commit, an
\* alias stanza, or an annotated tag block that was not suppressed
LastWroteToImporter ==
    \/ last_call.kind = "write"
    \/ /\ last_call.kind = "tag"
       /\ last_call.header.parses
       /\ last_call.target \notin last_call.before.updated_refs

\* C19: a broken-pipe failure of a write to the importer, for a kept commit,
\* an alias stanza or any part of an annotated tag block, is not returned: the
\* import-broken flag is set and processing continues; any other write error
\* is returned.
C19_BrokenPipeHandled ==
    LastWroteToImporter =>
        /\ last_call.fi = "BrokenPipe" => failed = "none" /\ import_broken
        /\ last_call.fi = "Other" => failed = "Other"
        /\ last_call.fi = "ok" => failed = "none"

(***************************************************************************)
(* The path codec of pathutil.rs.  A path is a byte string; the encoder    *)
(* turns it into the token written in a file-change line, the decoder      *)
(* reads a token back.                                                     *)
(***************************************************************************)
MaxPathLen == 3

\* the bytes paths are drawn from: a control byte, \n, space, `"`, `.`, `/`,
\* `7`, `:`, `\`, `a`, DEL and a byte >= 0x80
PathBytes == { 1, 10, 32, 34, 46, 47, 55, 58, 92, 97, 127, 200 }

Paths == UNION { [1 .. n -> PathBytes] : n \in 0 .. MaxPathLen }

\* the concatenation of the byte strings f(b) for the bytes b of s
RECURSIVE FlatMap(_, _)
FlatMap(f(_), s) ==
    IF s = << >> THEN << >> ELSE f(Head(s)) \o FlatMap(f, Tail(s))

\* variant: control bytes are left in the path
sanitize_nothing(p) == p

\* pathutil.rs: sanitize_fast_import_path_bytes
sanitize_fast_import_path_bytes(p) ==
    [i \in 1 .. Len(p) |-> IF p[i] <= 31 \/ p[i] = 127 THEN 95 ELSE p[i]]

\* pathutil.rs: needs_c_style_quote
needs_c_style_quote(bytes) ==
    \E i \in 1 .. Len(bytes) :
        bytes[i] <= 32 \/ bytes[i] >= 127 \/ bytes[i] = 34 \/ bytes[i] = 92

\* pathutil.rs 217-246: what enquote_c_style_bytes writes for one byte
EscapeByte(b) ==
    IF b = 34 THEN << 92, 34 >>
    ELSE IF b = 92 THEN << 92, 92 >>
    ELSE IF b = 10 THEN << 92, 110 >>
    ELSE IF b = 9 THEN << 92, 116 >>
    ELSE IF b = 13 THEN << 92, 114 >>
    ELSE IF b <= 31 \/ b >= 127
    THEN << 92, 48 + ((b \div 64) % 8), 48 + ((b \div 8) % 8), 48 + (b % 8) >>
    ELSE << b >>

\* variant: the bytes are put between quotes as they are
enquote_raw(bytes) == << 34 >> \o bytes \o << 34 >>

\* pathutil.rs: enquote_c_style_bytes
enquote_c_style_bytes(bytes) == << 34 >> \o FlatMap(EscapeByte, bytes) \o << 34 >>

IsOctal(c) == c >= 48 /\ c <= 55

\* pathutil.rs 170-209: the loop of dequote_c_style_bytes, from index i
RECURSIVE dequote_from(_, _)
dequote_from(s, i) ==
    IF i > Len(s) THEN << >>
    ELSE IF s[i] # 92 THEN << s[i] >> \o dequote_from(s, i + 1)
    ELSE IF i + 1 > Len(s) THEN << 92 >>
    ELSE LET c == s[i + 1] IN
         IF c = 92 THEN << 92 >> \o dequote_from(s, i + 2)
         ELSE IF c = 34 THEN << 34 >> \o dequote_from(s, i + 2)
         ELSE IF c = 110 THEN << 10 >> \o dequote_from(s, i + 2)
         ELSE IF c = 116 THEN << 9 >> \o dequote_from(s, i + 2)
         ELSE IF c = 114 THEN << 13 >> \o dequote_from(s, i + 2)
         ELSE IF IsOctal(c)
         THEN IF i + 2 <= Len(s) /\ IsOctal(s[i + 2])
              THEN IF i + 3 <= Len(s) /\ IsOctal(s[i + 3])
                   THEN << (((c - 48) * 64) + ((s[i + 2] - 48) * 8) + (s[i + 3] - 48)) % 256 >>
                           \o dequote_from(s, i + 4)
                   ELSE << ((c - 48) * 8) + (s[i + 2] - 48) >> \o dequote_from(s, i + 3)
              ELSE << c - 48 >> \o dequote_from(s, i + 2)
         ELSE << c >> \o dequote_from(s, i + 2)

\* pathutil.rs: dequote_c_style_bytes
dequote_c_style_bytes(s) == dequote_from(s, 1)

\* pathutil.rs: decode_fast_export_path_bytes
decode_fast_export_path_bytes(path) ==
    LET trimmed == IF Len(path) > 0 /\ path[Len(path)] = 10
                   THEN SubSeq(path, 1, Len(path) - 1)
                   ELSE path
    IN
    IF Len(trimmed) >= 2 /\ trimmed[1] = 34 /\ trimmed[Len(trimmed)] = 34
    THEN dequote_c_style_bytes(SubSeq(trimmed, 2, Len(trimmed) - 1))
    ELSE IF Len(trimmed) >= 1 /\ trimmed[1] = 34
    THEN dequote_c_style_bytes(SubSeq(trimmed, 2, Len(trimmed)))
    ELSE trimmed

\* pathutil.rs: encode_path_for_fi
encode_path_for_fi(bytes) ==
    LET safe == sanitize_fast_import_path_bytes(bytes) IN
    IF needs_c_style_quote(safe) THEN enquote_c_style_bytes(safe) ELSE safe

\* p without its trailing `.` and space bytes
RECURSIVE TrimDotsSpaces(_)
TrimDotsSpaces(t) ==
    IF Len(t) > 0 /\ t[Len(t)] \in {46, 32}
    THEN TrimDotsSpaces(SubSeq(t, 1, Len(t) - 1))
    ELSE t

\* pathutil.rs: sanitize_invalid_windows_path_bytes, of a build for windows
\* (win) and of any other build
sanitize_invalid_windows_path_bytes(p, win) ==
    IF ~win THEN p
    ELSE LET out == [i \in 1 .. Len(p) |->
                        IF p[i] \in {60, 62, 58, 34, 124, 63, 42} THEN 95 ELSE p[i]]
             slashes == {i \in 1 .. Len(out) : out[i] = 47}
             pos == IF slashes = {} THEN 0
                    ELSE CHOOSE i \in slashes : \A j \in slashes : j <= i
         IN SubSeq(out, 1, pos) \o TrimDotsSpaces(SubSeq(out, pos + 1, Len(out)))

PathCompatPolicy == {"Sanitize", "Skip", "Error"}

\* variant: the policy is not consulted, a violating path is always sanitized
apply_policy_sanitize_only(path, policy, win) ==
    [path |-> Some(sanitize_invalid_windows_path_bytes(path, win)), err |-> FALSE]

\* pathutil.rs: apply_path_compat_policy; path is None when the directive is
\* to be dropped
apply_path_compat_policy(path, policy, win) ==
    IF ~win THEN [path |-> Some(path), err |-> FALSE]
    ELSE IF sanitize_invalid_windows_path_bytes(path, win) = path
    THEN [path |-> Some(path), err |-> FALSE]
    ELSE IF policy = "Sanitize"
    THEN [path |-> Some(sanitize_invalid_windows_path_bytes(path, win)), err |-> FALSE]
    ELSE IF policy = "Skip" THEN [path |-> None, err |-> FALSE]
    ELSE [path |-> None, err |-> TRUE]

\* pathutil.rs: encode_path_for_fi_with_policy
encode_path_for_fi_with_policy(bytes, policy, win) ==
    LET r == apply_path_compat_policy(bytes, policy, win) IN
    [path |-> IF IsSome(r.path) THEN Some(encode_path_for_fi(Unwrap(r.path))) ELSE None,
     err |-> r.err]

InitPath ==
    /\ windows \in BOOLEAN
    /\ path_in \in Paths
    /\ token = None
    /\ decoded = None
    /\ PathElseIdle

(* ---- pathutil.rs: encode_path_for_fi on the path ---- *)
EncodePath ==
    /\ token = None
    /\ token' = Some(encode_path_for_fi(path_in))
    /\ UNCHANGED << path_in, decoded >>
    /\ UNCHANGED not_path_vars

(* ---- pathutil.rs: decode_fast_export_path_bytes on the token ---- *)
DecodePath ==
    /\ IsSome(token)
    /\ decoded = None
    /\ decoded' = Some(decode_fast_export_path_bytes(Unwrap(token)))
    /\ UNCHANGED << path_in, token >>
    /\ UNCHANGED not_path_vars

NextPath ==
    \/ EncodePath
    \/ DecodePath

SpecPath == InitPath /\ [][NextPath]_vars

\* the compatibility transformation of sanitize mode, as the encoder with
\* policy applies it: the platform's substitutions, then `_` for control bytes
SanitizeMode(p) ==
    sanitize_fast_import_path_bytes(sanitize_invalid_windows_path_bytes(p, windows))

\* p with `_` for each of its bytes 0x00-0x1F and 0x7F
ControlToUnderscore(p) ==
    [i \in 1 .. Len(p) |-> IF p[i] \in (0 .. 31) \cup {127} THEN 95 ELSE p[i]]

MaxFcPathLen == 2

\* the bytes the paths of directives are drawn from: a control byte, `/`,
\* `:` and `a`
FcPathBytes == { 1, 47, 58, 97 }

FcPaths == UNION { [1 .. n -> FcPathBytes] : n \in 1 .. MaxFcPathLen }

\* enum FileChange
FileChange(kind, mode, id, paths) ==
    [kind |-> kind, mode |-> mode, id |-> id, paths |-> paths]

FileChanges ==
    { FileChange("deleteall", "", "", << >>) }
        \cup { FileChange("M", "100644", ":1", << q >>) : q \in FcPaths }
        \cup { FileChange("D", "", "", << q >>) : q \in FcPaths }
        \cup { FileChange(k, "", "", << q, r >>) : k \in {"C", "R"}, q \in FcPaths, r \in FcPaths }

\* the configurations of a run: the prefix `a`, the glob `*`, the regex `:`,
\* the rename a -> b, each configured or not
FilterOptions ==
    [paths : SUBSET { << 97 >> }, path_globs : SUBSET { << 42 >> },
     path_regexes : SUBSET { << 58 >> }, invert_paths : BOOLEAN,
     path_renames : { << >>, << << << 97 >>, << 98 >> >> >> },
     path_compat_policy : PathCompatPolicy]

\* pathutil.rs: glob_match_bytes, its inner match_from
RECURSIVE match_from(_, _)
match_from(pat, t) ==
    IF pat = << >> THEN t = << >>
    ELSE IF pat[1] = 42 /\ Len(pat) >= 2 /\ pat[2] = 42
    THEN LET rest0 == Tail_from(pat, 2)
             rest == IF rest0 # << >> /\ rest0[1] = 47 THEN Tail(rest0) ELSE rest0
         IN \E i \in 0 .. Len(t) : match_from(rest, Tail_from(t, i))
    ELSE IF pat[1] = 42
    THEN \E i \in 0 .. Len(t) :
            /\ \A j \in 1 .. i : t[j] # 47
            /\ match_from(Tail(pat), Tail_from(t, i))
    ELSE IF pat[1] = 63
    THEN t # << >> /\ t[1] # 47 /\ match_from(Tail(pat), Tail(t))
    ELSE t # << >> /\ pat[1] = t[1] /\ match_from(Tail(pat), Tail(t))

glob_match_bytes(pat, text) == match_from(pat, text)

\* Regex::is_match for a regex that is a literal: the literal occurs in the path
regex_is_match(re, path) ==
    \E i \in 1 .. Len(path) + 1 :
        i + Len(re) - 1 <= Len(path) /\ SubSeq(path, i, i + Len(re) - 1) = re

\* filechange.rs: path_matches
path_matches(path, o) ==
    \/ o.paths # {} /\ \E pref \in o.paths : StartsWith(path, pref)
    \/ o.path_globs # {} /\ \E g \in o.path_globs : glob_match_bytes(g, path)
    \/ o.path_regexes # {} /\ \E re \in o.path_regexes : regex_is_match(re, path)

\* filechange.rs: should_keep
should_keep(paths, o) ==
    IF o.paths = {} /\ o.path_globs = {} /\ o.path_regexes = {} THEN TRUE
    ELSE LET matched == \E i \in 1 .. Len(paths) : path_matches(paths[i], o) IN
         (o.invert_paths /\ ~matched) \/ (~o.invert_paths /\ matched)

\* variant: renaming stops at the first rule that applies
RECURSIVE rewrite_path_first_match(_, _)
rewrite_path_first_match(path, renames) ==
    IF renames = << >> THEN path
    ELSE IF StartsWith(path, Head(renames)[1])
    THEN Head(renames)[2] \o Tail_from(path, Len(Head(renames)[1]))
    ELSE rewrite_path_first_match(path, Tail(renames))

\* filechange.rs: rewrite_path, the rules in order
RECURSIVE rewrite_path(_, _)
rewrite_path(path, renames) ==
    IF renames = << >> THEN path
    ELSE LET old == Head(renames)[1]
             new_ == Head(renames)[2]
         IN rewrite_path(IF StartsWith(path, old)
                         THEN new_ \o Tail_from(path, Len(old))
                         ELSE path,
                         Tail(renames))

\* filechange.rs 226-340: the rebuilt directive, its paths rewritten and
\* encoded one after the other; a path the policy skips drops the directive,
\* a path it rejects fails the call
RECURSIVE EncodePaths(_, _, _)
EncodePaths(paths, o, win) ==
    IF paths = << >> THEN [tokens |-> Some(<< >>), err |-> FALSE]
    ELSE LET new_path == rewrite_path(Head(paths), o.path_renames)
             enc == encode_path_for_fi_with_policy(new_path, o.path_compat_policy, win)
             rest == EncodePaths(Tail(paths), o, win)
         IN
         IF enc.err THEN [tokens |-> None, err |-> TRUE]
         ELSE IF ~IsSome(enc.path) THEN [tokens |-> None, err |-> FALSE]
         ELSE IF rest.err THEN [tokens |-> None, err |-> TRUE]
         ELSE IF ~IsSome(rest.tokens) THEN [tokens |-> None, err |-> FALSE]
         ELSE [tokens |-> Some(<< Unwrap(enc.path) >> \o Unwrap(rest.tokens)),
               err |-> FALSE]

\* filechange.rs: handle_file_change_line on a parsed directive: the line to
\* write (None to drop it), or an error
HandleFileChangeOutcome(parsed, o, win) ==
    LET keep == IF parsed.kind = "deleteall" THEN TRUE ELSE should_keep(parsed.paths, o)
        enc == EncodePaths(parsed.paths, o, win)
    IN
    IF ~keep THEN [line |-> None, err |-> FALSE]
    ELSE IF parsed.kind = "deleteall" THEN [line |-> Some(parsed), err |-> FALSE]
    ELSE IF enc.err THEN [line |-> None, err |-> TRUE]
    ELSE IF ~IsSome(enc.tokens) THEN [line |-> None, err |-> FALSE]
    ELSE [line |-> Some(FileChange(parsed.kind, parsed.mode, parsed.id, Unwrap(enc.tokens))),
          err |-> FALSE]

InitFc ==
    /\ windows \in BOOLEAN
    /\ fc_opts \in {Some(o) : o \in {f \in FilterOptions :
                                        ~windows => f.path_compat_policy = "Sanitize"}}
    /\ fc_in = None
    /\ fc_out = None
    /\ FcElseIdle

(* ---- filechange.rs: handle_file_change_line on one directive ---- *)
HandleFileChange ==
    /\ fc_in = None
    /\ \E parsed \in FileChanges :
         /\ fc_in' = Some(parsed)
         /\ fc_out' = Some(HandleFileChangeOutcome(parsed, Unwrap(fc_opts), windows))
    /\ UNCHANGED fc_opts
    /\ UNCHANGED not_fc_vars

NextFc == HandleFileChange

SpecFc == InitFc /\ [][NextFc]_vars

\* the handler was called, under the policy that drops and rejects nothing
Handled == IsSome(fc_out) /\ Unwrap(fc_opts).path_compat_policy = "Sanitize"

\* the directive of the last call was kept
Kept == IsSome(Unwrap(fc_out).line)

NoPredicates(o) == o.paths = {} /\ o.path_globs = {} /\ o.path_regexes = {}

\* a path matches if it starts with a configured prefix or a configured glob
\* or regex matches it, and every path matches when no predicate is
\* configured
Matches(path, o) ==
    \/ NoPredicates(o)
    \/ \E pref \in o.paths : SubSeq(path, 1, Len(pref)) = pref /\ Len(pref) <= Len(path)
    \/ \E g \in o.path_globs : glob_match_bytes(g, path)
    \/ \E re \in o.path_regexes : regex_is_match(re, path)

\* C13: an M or D directive is kept iff (its path matches) XOR invert_paths,
\* a C or R directive iff (its src or its dst matches) XOR invert_paths, where
\* every path matches when no predicate is configured; deleteall is always
\* kept.
C13_KeepRule ==
    Handled =>
        LET d == Unwrap(fc_in)
            o == Unwrap(fc_opts)
            matched == \E i \in 1 .. Len(d.paths) : Matches(d.paths[i], o)
        IN
        IF d.kind = "deleteall" THEN Kept
        ELSE Kept <=> ((matched /\ ~o.invert_paths) \/ (~matched /\ o.invert_paths))

\* the last call ran with no path predicate and no path rename configured
IdentityRules ==
    /\ Handled
    /\ NoPredicates(Unwrap(fc_opts))
    /\ ~Unwrap(fc_opts).invert_paths
    /\ Unwrap(fc_opts).path_renames = << >>

\* the directive written has the kind, mode and id of the directive read
SameDirective ==
    /\ Kept
    /\ Unwrap(Unwrap(fc_out).line).kind = Unwrap(fc_in).kind
    /\ Unwrap(Unwrap(fc_out).line).mode = Unwrap(fc_in).mode
    /\ Unwrap(Unwrap(fc_out).line).id = Unwrap(fc_in).id
    /\ Len(Unwrap(Unwrap(fc_out).line).paths) = Len(Unwrap(fc_in).paths)

\* the decoded bytes of the i-th path of the directive written
WrittenPath(i) == decode_fast_export_path_bytes(Unwrap(Unwrap(fc_out).line).paths[i])

HasControlByte(path) == \E i \in 1 .. Len(path) : path[i] \in (0 .. 31) \cup {127}

MaxRules == 3
MaxPayloadLen == 4

\* the bytes payloads and patterns are made of: a control byte and a byte
\* that is not UTF-8
ReplBytes == { 0, 255 }

Patterns == UNION { [1 .. n -> ReplBytes] : n \in 1 .. 2 }

Payloads == UNION { [1 .. n -> ReplBytes] : n \in 0 .. MaxPayloadLen }

\* the i-th rule of a file replaces its pattern by the byte 100 + i
RuleSets ==
    UNION { { [i \in 1 .. n |-> << pats[i], << 100 + i >> >>] : pats \in [1 .. n -> Patterns] }
            : n \in 1 .. MaxRules }

AHO_CORASICK_THRESHOLD == 3

\* message.rs 49-56: the automaton is built for three rules or more
has_ac(prs) == Len(prs) >= AHO_CORASICK_THRESHOLD

\* message.rs 78-80
supports_streaming(prs) == has_ac(prs)

\* &h[i..i + n.len()] == n
OccursAt(h, n, i) == i + Len(n) <= Len(h) /\ SubSeq(h, i + 1, i + Len(n)) = n

\* message.rs: replace_all_bytes, from index i
RECURSIVE replace_all_from(_, _, _, _)
replace_all_from(h, n, r, i) ==
    IF i + Len(n) > Len(h) THEN Tail_from(h, i)
    ELSE IF OccursAt(h, n, i) THEN r \o replace_all_from(h, n, r, i + Len(n))
    ELSE << h[i + 1] >> \o replace_all_from(h, n, r, i + 1)

\* message.rs: replace_all_bytes
replace_all_bytes(h, n, r) == IF n = << >> THEN h ELSE replace_all_from(h, n, r, 0)

\* message.rs 70-74: the rules applied one after the other
RECURSIVE apply_pairs(_, _)
apply_pairs(data, prs) ==
    IF prs = << >> THEN data
    ELSE apply_pairs(replace_all_bytes(data, Head(prs)[1], Head(prs)[2]), Tail(prs))

\* the pattern an automaton state reports first among the patterns in cands:
\* the longest, and of equal ones the one added first
FirstReported(prs, cands) ==
    CHOOSE i \in cands :
        \A j \in cands :
            \/ Len(prs[j][1]) < Len(prs[i][1])
            \/ Len(prs[j][1]) = Len(prs[i][1]) /\ i <= j

\* variant: no match is ever found
ac_find_nothing(data, prs, from) == None

\* AhoCorasick::find on data[from..]: the match that ends first
ac_find(data, prs, from) ==
    LET ends == {e \in from .. Len(data) :
                    \E i \in 1 .. Len(prs) :
                        e - Len(prs[i][1]) >= from /\ OccursAt(data, prs[i][1], e - Len(prs[i][1]))}
    IN
    IF ends = {} THEN None
    ELSE LET e == CHOOSE x \in ends : \A y \in ends : x <= y
             cands == {i \in 1 .. Len(prs) :
                          e - Len(prs[i][1]) >= from
                             /\ OccursAt(data, prs[i][1], e - Len(prs[i][1]))}
             i == FirstReported(prs, cands)
         IN Some([start |-> e - Len(prs[i][1]), end |-> e, pattern |-> i])

\* message.rs 113-125: the loop over ac.find_iter(data), from offset last
RECURSIVE replace_matches_from(_, _, _)
replace_matches_from(data, prs, last_end) ==
    LET m == ac_find(data, prs, last_end) IN
    IF m = None THEN Tail_from(data, last_end)
    ELSE SubSeq(data, last_end + 1, Unwrap(m).start) \o prs[Unwrap(m).pattern][2]
            \o replace_matches_from(data, prs, Unwrap(m).end)

\* message.rs: apply_ac_replacements
apply_ac_replacements(prs, data) ==
    IF ac_find(data, prs, 0) = None THEN [out |-> data, changed |-> FALSE]
    ELSE [out |-> replace_matches_from(data, prs, 0), changed |-> TRUE]

\* message.rs: MessageReplacer::apply
apply(prs, data) ==
    IF has_ac(prs) THEN apply_ac_replacements(prs, data).out ELSE apply_pairs(data, prs)

\* the automaton's transition: the longest suffix of what was read that is a
\* prefix of a pattern
next_state(state, b, prs) ==
    LET w == Append(state, b)
        ks == {k \in 0 .. Len(w) :
                  \E i \in 1 .. Len(prs) : StartsWith(prs[i][1], Tail_from(w, Len(w) - k))}
        k == CHOOSE x \in ks : \A y \in ks : y <= x
    IN Tail_from(w, Len(w) - k)

\* the pattern a state reports, if it is a match state
state_match(state, prs) ==
    LET cands == {i \in 1 .. Len(prs) :
                     Len(prs[i][1]) <= Len(state)
                        /\ Tail_from(state, Len(state) - Len(prs[i][1])) = prs[i][1]}
    IN IF cands = {} THEN None ELSE Some(FirstReported(prs, cands))

\* variant: the automaton starts every chunk in its start state
chunk_start_fresh(state) == << >>

\* the state the automaton starts a chunk in: the state the last chunk left
chunk_start_state(state) == state

\* try_stream_replace_all_with over one chunk: st is the automaton state, the
\* bytes held back, the bytes written, the changed flag, the position, and
\* whether a match lay across one of the cuts
RECURSIVE feed_chunk(_, _, _, _)
feed_chunk(st, chunk, prs, cuts) ==
    IF chunk = << >> THEN st
    ELSE LET state == next_state(st.state, Head(chunk), prs)
             held == Append(st.held, Head(chunk))
             pos == st.pos + 1
             m == state_match(state, prs)
         IN
         IF m = None
         THEN feed_chunk([st EXCEPT !.state = state, !.held = held, !.pos = pos],
                         Tail(chunk), prs, cuts)
         ELSE LET pat == prs[Unwrap(m)][1] IN
              feed_chunk([state |-> << >>,
                          held |-> << >>,
                          out |-> st.out \o SubSeq(held, 1, Len(held) - Len(pat))
                                     \o prs[Unwrap(m)][2],
                          changed |-> TRUE,
                          pos |-> pos,
                          straddled |-> st.straddled
                              \/ \E c \in cuts : pos - Len(pat) < c /\ c < pos],
                         Tail(chunk), prs, cuts)

InitRepl ==
    /\ repl_pairs \in RuleSets
    /\ payload \in Payloads
    /\ applied = None
    /\ s_pos = 0
    /\ s_state = << >>
    /\ s_held = << >>
    /\ s_out = << >>
    /\ s_changed = FALSE
    /\ s_cuts = {}
    /\ s_straddled = FALSE
    /\ s_done = "no"
    /\ ReplElseIdle

(* ---- message.rs: MessageReplacer::apply on the whole payload ---- *)
Apply ==
    /\ applied = None
    /\ applied' = Some([out |-> apply(repl_pairs, payload),
                        ac |-> IF has_ac(repl_pairs)
                               THEN Some(apply_ac_replacements(repl_pairs, payload))
                               ELSE None])
    /\ UNCHANGED << repl_pairs, payload, s_pos, s_state, s_held, s_out, s_changed, s_cuts,
                    s_straddled, s_done >>
    /\ UNCHANGED not_repl_vars

(* ---- message.rs: apply_streaming without an automaton ---- *)
StreamUnsupported ==
    /\ s_done = "no"
    /\ ~has_ac(repl_pairs)
    /\ s_done' = "err"
    /\ UNCHANGED << repl_pairs, payload, applied, s_pos, s_state, s_held, s_out, s_changed,
                    s_cuts, s_straddled >>
    /\ UNCHANGED not_repl_vars

(* ---- message.rs: apply_streaming, one read of the reader ---- *)
StreamRead ==
    /\ s_done = "no"
    /\ has_ac(repl_pairs)
    /\ s_pos < Len(payload)
    /\ \E k \in 1 .. Len(payload) - s_pos :
         LET st == feed_chunk([state |-> chunk_start_state(s_state), held |-> s_held,
                               out |-> s_out, changed |-> s_changed, pos |-> s_pos,
                               straddled |-> s_straddled],
                              SubSeq(payload, s_pos + 1, s_pos + k), repl_pairs, s_cuts)
         IN
         /\ s_state' = st.state
         /\ s_held' = st.held
         /\ s_out' = st.out
         /\ s_changed' = st.changed
         /\ s_straddled' = st.straddled
         /\ s_pos' = s_pos + k
         /\ s_cuts' = s_cuts \cup {s_pos + k}
    /\ UNCHANGED << repl_pairs, payload, applied, s_done >>
    /\ UNCHANGED not_repl_vars

(* ---- message.rs: apply_streaming, the reader is at its end ---- *)
StreamEnd ==
    /\ s_done = "no"
    /\ has_ac(repl_pairs)
    /\ s_pos = Len(payload)
    /\ s_out' = s_out \o s_held
    /\ s_held' = << >>
    /\ s_done' = "ok"
    /\ UNCHANGED << repl_pairs, payload, applied, s_pos, s_state, s_changed, s_cuts,
                    s_straddled >>
    /\ UNCHANGED not_repl_vars

NextRepl ==
    \/ Apply
    \/ StreamUnsupported
    \/ StreamRead
    \/ StreamEnd

SpecRepl == InitRepl /\ [][NextRepl]_vars

\* some rule's pattern occurs in the payload
HasOccurrence ==
    \E i \in 1 .. Len(repl_pairs) :
        \E at \in 0 .. Len(payload) : OccursAt(payload, repl_pairs[i][1], at)

\* apply_streaming ran to its end, with or without an error
StreamFinished == s_done # "no"

\* C15 (as stated): for every payload, every literal rule set and every
\* split of the payload into read chunks, the bytes apply_streaming wrote
\* equal the bytes apply returns.
C15_StreamingEquivalence ==
    StreamFinished => s_out = apply(repl_pairs, payload)

\* C15 (amended): for every rule set of AHO_CORASICK_THRESHOLD rules or more
\* apply_streaming succeeds and the bytes it wrote equal the bytes apply
\* returns, for every split into chunks; with fewer rules it fails with an
\* error and writes nothing.
C15_StreamingEquivalenceAmended ==
    /\ s_done = "ok" =>
          Len(repl_pairs) >= AHO_CORASICK_THRESHOLD /\ s_out = apply(repl_pairs, payload)
    /\ s_done = "err" => Len(repl_pairs) < AHO_CORASICK_THRESHOLD /\ s_out = << >>

\* a pattern occurrence that lay across a chunk boundary was replaced, and
\* the streamed bytes are those of whole-buffer replacement
C15_Witness ==
    /\ s_done = "ok"
    /\ s_straddled
    /\ IsSome(applied)
    /\ s_out = Unwrap(applied).out
    /\ s_out # payload

\* C16: a payload in which no rule's pattern occurs is returned byte for
\* byte by whole-buffer replacement and written byte for byte by streaming
\* replacement, and the changed flag, where one is reported (by
\* apply_ac_replacements and by a successful apply_streaming), is true
\* exactly when some pattern occurrence was replaced.
C16_IdentityPreservation ==
    /\ IsSome(applied) =>
          /\ ~HasOccurrence => Unwrap(applied).out = payload
          /\ IsSome(Unwrap(applied).ac) =>
                /\ Unwrap(Unwrap(applied).ac).changed <=> HasOccurrence
                /\ ~HasOccurrence => Unwrap(Unwrap(applied).ac).out = payload
    /\ s_done = "ok" =>
          /\ s_changed <=> HasOccurrence
          /\ ~HasOccurrence => s_out = payload

\* a payload holding a NUL byte and a byte that is no UTF-8, with no pattern
\* in it, went through both replacements unchanged and unflagged
C16_Witness ==
    /\ ~HasOccurrence
    /\ \E i \in 1 .. Len(payload) : payload[i] = 0
    /\ \E i \in 1 .. Len(payload) : payload[i] = 255
    /\ s_done = "ok"
    /\ ~s_changed
    /\ s_out = payload
    /\ IsSome(applied)
    /\ IsSome(Unwrap(applied).ac)
    /\ ~Unwrap(Unwrap(applied).ac).changed
    /\ Unwrap(applied).out = payload

(***************************************************************************)
(* The short-hash mapper of message.rs: it reads a commit-map of an        *)
(* earlier run, indexes the old oids by their first seven hex digits and   *)
(* replaces the hex runs of a message that resolve to one old oid.         *)
(***************************************************************************)
MaxMapLines == 2
MaxHashCalls == 3

MIN_SHORT_HASH_LEN == 7

\* an oid whose first seven hex digits are the byte a and whose others are b
Oid(a, b) == [i \in 1 .. 40 |-> IF i <= MIN_SHORT_HASH_LEN THEN a ELSE b]

NULL_OID == [i \in 1 .. 40 |-> 48]

\* aaaaaaa1.., aaaaaaa2.. (one seven-digit prefix) and bbbbbbb1..
OldOids == { Oid(97, 49), Oid(97, 50), Oid(98, 49) }

NewOids == { NULL_OID, Oid(99, 51), Oid(100, 52) }

\* the lines "<old> <new>" a commit-map file can hold, repeated ones included
CommitMapFiles ==
    UNION { [1 .. n -> OldOids \X NewOids] : n \in 1 .. MaxMapLines }

\* u8::to_ascii_lowercase
lower_byte(b) == IF b \in 65 .. 90 THEN b + 32 ELSE b

\* <[u8]>::to_ascii_lowercase
to_ascii_lowercase(bs) == [i \in 1 .. Len(bs) |-> lower_byte(bs[i])]

to_ascii_uppercase(bs) == [i \in 1 .. Len(bs) |-> IF bs[i] \in 97 .. 122 THEN bs[i] - 32 ELSE bs[i]]

\* the hex runs of the messages: the old oids in full and cut to 7 and 8
\* digits, one of them in capitals, and a run no old oid starts with
Runs ==
    { SubSeq(o, 1, n) : o \in OldOids, n \in { MIN_SHORT_HASH_LEN, MIN_SHORT_HASH_LEN + 1, 40 } }
       \cup { to_ascii_uppercase(SubSeq(Oid(98, 49), 1, MIN_SHORT_HASH_LEN)) }
       \cup { SubSeq(Oid(102, 102), 1, MIN_SHORT_HASH_LEN) }

\* HashMap::insert
Insert(f, k, v) == [x \in DOMAIN f \cup {k} |-> IF x = k THEN v ELSE f[x]]

\* HashMap::get(..).cloned(), an absent key giving None
Get(f, k) == IF k \in DOMAIN f THEN Some(f[k]) ELSE None

\* old_norm[..MIN_SHORT_HASH_LEN.min(old_norm.len())]
prefix_of(old_norm) ==
    SubSeq(old_norm, 1, IF Len(old_norm) < MIN_SHORT_HASH_LEN THEN Len(old_norm)
                        ELSE MIN_SHORT_HASH_LEN)

\* prefix_index.entry(prefix).or_default()
Entry(pi, prefix) == IF prefix \in DOMAIN pi THEN pi[prefix] ELSE << >>

\* message.rs 247-250: update_mapping pushes an old oid the entry does not hold
push_if_absent(entry, old_norm) ==
    IF \E i \in 1 .. Len(entry) : entry[i] = old_norm THEN entry ELSE Append(entry, old_norm)

\* message.rs 187-190: .push(old_norm.clone())
push_old(entry, old_norm) == Append(entry, old_norm)

\* message.rs 153-194: the lines of the commit-map, from line i on
RECURSIVE from_debug_dir_from(_, _, _)
from_debug_dir_from(file, i, m) ==
    IF i > Len(file) THEN m
    ELSE LET old_norm == to_ascii_lowercase(file[i][1])
             new == file[i][2]
             new_entry == IF new = NULL_OID THEN None ELSE Some(to_ascii_lowercase(new))
         IN from_debug_dir_from(file, i + 1,
               [lookup |-> Insert(m.lookup, old_norm, new_entry),
                prefix_index |-> Insert(m.prefix_index, prefix_of(old_norm),
                                        push_old(Entry(m.prefix_index, prefix_of(old_norm)),
                                                 old_norm))])

\* message.rs: ShortHashMapper::from_debug_dir
from_debug_dir(file) ==
    from_debug_dir_from(file, 1, [lookup |-> << >>, prefix_index |-> << >>])

\* the commit-map a file stands for: the last line of an old oid counts
RECURSIVE MapOfFile(_, _, _)
MapOfFile(file, i, m) ==
    IF i > Len(file) THEN m
    ELSE MapOfFile(file, i + 1,
                   Insert(m, to_ascii_lowercase(file[i][1]), to_ascii_lowercase(file[i][2])))

\* message.rs: ShortHashMapper::lookup_prefix
lookup_prefix(lk, pi, short, orig_len) ==
    IF Len(short) < MIN_SHORT_HASH_LEN THEN None
    ELSE LET key == SubSeq(short, 1, MIN_SHORT_HASH_LEN) IN
         IF key \notin DOMAIN pi THEN None
         ELSE LET entries == pi[key]
                  matches == SelectSeq(entries,
                                LAMBDA full : Len(full) >= orig_len
                                                 /\ SubSeq(full, 1, orig_len) = short)
              IN
              IF matches = << >> THEN None
              ELSE IF Len(matches) > 1 THEN None
              ELSE LET got == Get(lk, matches[1]) IN
                   IF IsSome(got) /\ IsSome(Unwrap(got))
                   THEN Some(SubSeq(Unwrap(Unwrap(got)), 1, orig_len))
                   ELSE None

\* message.rs 229-233: what a run resolves to when the cache has no entry
resolve(lk, pi, candidate) ==
    LET key == to_ascii_lowercase(candidate) IN
    IF Len(candidate) = 40
    THEN LET got == Get(lk, key) IN IF IsSome(got) THEN Unwrap(got) ELSE None
    ELSE lookup_prefix(lk, pi, key, Len(candidate))

\* message.rs: ShortHashMapper::translate, its result
translate(lk, pi, ch, candidate) ==
    IF Len(candidate) < MIN_SHORT_HASH_LEN THEN None
    ELSE LET key == to_ascii_lowercase(candidate) IN
         IF key \in DOMAIN ch THEN ch[key] ELSE resolve(lk, pi, candidate)

\* message.rs: ShortHashMapper::translate, the cache it leaves
cache_after(lk, pi, ch, candidate) ==
    IF Len(candidate) < MIN_SHORT_HASH_LEN THEN ch
    ELSE LET key == to_ascii_lowercase(candidate) IN
         IF key \in DOMAIN ch THEN ch ELSE Insert(ch, key, resolve(lk, pi, candidate))

InitHash ==
    /\ \E file \in CommitMapFiles :
         /\ lookup = from_debug_dir(file).lookup
         /\ prefix_index = from_debug_dir(file).prefix_index
         /\ commit_map = MapOfFile(file, 1, << >>)
    /\ cache = << >>
    /\ rewritten = None
    /\ hash_calls = 0
    /\ HashElseIdle

(* ---- message.rs: ShortHashMapper::rewrite on a message that is one run ---- *)
Rewrite ==
    /\ hash_calls < MaxHashCalls
    /\ \E run \in Runs :
         LET t == translate(lookup, prefix_index, cache, run) IN
         /\ rewritten' = Some([run |-> run, out |-> IF t = None THEN run ELSE Unwrap(t),
                                map |-> commit_map])
         /\ cache' = cache_after(lookup, prefix_index, cache, run)
    /\ hash_calls' = hash_calls + 1
    /\ UNCHANGED << lookup, prefix_index, commit_map >>
    /\ UNCHANGED not_hash_vars

(* ---- message.rs: ShortHashMapper::update_mapping ---- *)
UpdateMapping ==
    /\ hash_calls < MaxHashCalls
    /\ \E old_full \in OldOids, new_full \in NewOids :
         LET old_norm == to_ascii_lowercase(old_full)
             new_norm == to_ascii_lowercase(new_full)
             prefix == prefix_of(old_norm)
         IN
         /\ prefix_index' = Insert(prefix_index, prefix,
                                   push_if_absent(Entry(prefix_index, prefix), old_norm))
         /\ lookup' = Insert(lookup, old_norm, Some(new_norm))
         /\ commit_map' = Insert(commit_map, old_norm, new_norm)
    /\ cache' = << >>
    /\ hash_calls' = hash_calls + 1
    /\ UNCHANGED rewritten
    /\ UNCHANGED not_hash_vars

NextHash ==
    \/ Rewrite
    \/ UpdateMapping

SpecHash == InitHash /\ [][NextHash]_vars

\* the old oids of a commit-map a run is a prefix of
OldOidsOf(map, run) ==
    { o \in DOMAIN map : StartsWith(o, to_ascii_lowercase(run)) }

\* C20: a run of 7 to 40 hex digits is replaced by as many digits of the new
\* oid exactly when it is a prefix of one old oid of the commit-map and that
\* oid's new oid is not the null oid, and is otherwise returned as it was,
\* after every interleaving of update_mapping and rewrite and for every
\* commit-map file.
C20_ShortHashRemapping ==
    IsSome(rewritten) =>
        LET run == Unwrap(rewritten).run
            out == Unwrap(rewritten).out
            map == Unwrap(rewritten).map
            olds == OldOidsOf(map, run)
        IN
        IF Cardinality(olds) = 1 /\ (\A o \in olds : map[o] # NULL_OID)
        THEN \A o \in olds : out = SubSeq(map[o], 1, Len(run))
        ELSE out = run

(***************************************************************************)
(* The path-compatibility policy in the file-change handler: directives    *)
(* whose paths end in a dot, hold a reserved byte, or are made so by a     *)
(* rename, under each policy and on each build.                            *)
(***************************************************************************)
\* the bytes of these paths: `.`, `/`, `:` and `a`
CompatPathBytes == { 46, 47, 58, 97 }

CompatPaths == UNION { [1 .. n -> CompatPathBytes] : n \in 1 .. MaxFcPathLen }

CompatFileChanges ==
    { FileChange("deleteall", "", "", << >>) }
        \cup { FileChange("M", "100644", ":1", << q >>) : q \in CompatPaths }
        \cup { FileChange("D", "", "", << q >>) : q \in CompatPaths }
        \cup { FileChange(k, "", "", << q, r >>) :
                  k \in {"C", "R"}, q \in CompatPaths, r \in CompatPaths }

\* the configurations: the prefix `a` configured or not, inverted or not, the
\* rename a -> `:` configured or not, and each policy
CompatOptions ==
    [paths : SUBSET { << 97 >> }, path_globs : { {} }, path_regexes : { {} },
     invert_paths : BOOLEAN,
     path_renames : { << >>, << << << 97 >>, << 58 >> >> >> },
     path_compat_policy : PathCompatPolicy]

InitCompat ==
    /\ windows \in BOOLEAN
    /\ fc_opts \in {Some(o) : o \in CompatOptions}
    /\ fc_in = None
    /\ fc_out = None
    /\ FcElseIdle

(* ---- filechange.rs: handle_file_change_line, under each policy ---- *)
HandleCompat ==
    /\ fc_in = None
    /\ \E parsed \in CompatFileChanges :
         /\ fc_in' = Some(parsed)
         /\ fc_out' = Some(HandleFileChangeOutcome(parsed, Unwrap(fc_opts), windows))
    /\ UNCHANGED fc_opts
    /\ UNCHANGED not_fc_vars

NextCompat == HandleCompat

SpecCompat == InitCompat /\ [][NextCompat]_vars

\* the compatibility predicate of a Windows build: a reserved byte in the
\* path, or a dot or a space at its end
ViolatesWindows(path) ==
    \/ \E i \in 1 .. Len(path) : path[i] \in {60, 62, 58, 34, 124, 63, 42}
    \/ path # << >> /\ path[Len(path)] \in {46, 32}

\* the i-th path of the directive read, after the renames
RenamedPath(i) == rewrite_path(Unwrap(fc_in).paths[i], Unwrap(fc_opts).path_renames)

\* the paths of the directive read that violate the predicate on this build
Violating == { i \in 1 .. Len(Unwrap(fc_in).paths) : windows /\ ViolatesWindows(RenamedPath(i)) }

\* the directive read passed the path filter
KeptByFilter ==
    Unwrap(fc_in).kind = "deleteall" \/ should_keep(Unwrap(fc_in).paths, Unwrap(fc_opts))

\* C21: on a Windows build a kept directive with a path that violates the
\* compatibility predicate is written with the sanitized paths under policy
\* sanitize, dropped whole under policy skip (for C and R if either path
\* violates) and makes the handler fail under policy error; a kept directive
\* with no violating path, and every kept directive on any other build, is
\* written with its paths as they are under all three policies, never
\* dropped and never failing.
C21_PathCompatPolicy ==
    IsSome(fc_out) /\ KeptByFilter /\ Unwrap(fc_in).kind # "deleteall" =>
        LET out == Unwrap(fc_out)
            policy == Unwrap(fc_opts).path_compat_policy
            n == Len(Unwrap(fc_in).paths)
        IN
        IF Violating = {}
        THEN /\ ~out.err
             /\ IsSome(out.line)
             /\ Unwrap(out.line).kind = Unwrap(fc_in).kind
             /\ \A i \in 1 .. n : Unwrap(out.line).paths[i] = encode_path_for_fi(RenamedPath(i))
        ELSE IF policy = "Sanitize"
        THEN /\ ~out.err
             /\ IsSome(out.line)
             /\ Unwrap(out.line).kind = Unwrap(fc_in).kind
             /\ \A i \in 1 .. n :
                   Unwrap(out.line).paths[i]
                      = encode_path_for_fi(sanitize_invalid_windows_path_bytes(RenamedPath(i), TRUE))
             /\ \A i \in Violating :
                   Unwrap(out.line).paths[i] # encode_path_for_fi(RenamedPath(i))
        ELSE IF policy = "Skip"
        THEN ~out.err /\ out.line = None
        ELSE out.err /\ out.line = None

\* on a Windows build under policy skip, a rename directive whose source is
\* fine and whose destination ends in a dot was dropped whole
C21_Witness ==
    /\ IsSome(fc_out)
    /\ windows
    /\ Unwrap(fc_opts).path_compat_policy = "Skip"
    /\ KeptByFilter
    /\ Unwrap(fc_in).kind = "R"
    /\ Violating = {2}
    /\ Unwrap(fc_in).paths[2][Len(Unwrap(fc_in).paths[2])] = 46
    /\ Unwrap(fc_out).line = None
    /\ ~Unwrap(fc_out).err

(***************************************************************************)
(* The alias table over whole runs of the commit handlers (Spec).          *)
(***************************************************************************)
\* commit.rs 559-565: resolve_canonical_mark leaves its loop through one of
\* its two breaks (a mark seen before, or a mark aliased to itself)
RECURSIVE CycleBreakerFires(_, _, _)
CycleBreakerFires(current, seen, am) ==
    IF current \notin DOMAIN am THEN FALSE
    ELSE IF current \in seen THEN TRUE
    ELSE IF am[current] = current THEN TRUE
    ELSE CycleBreakerFires(am[current], seen \cup {current}, am)

\* the alias entries the commit terminated last has added
NewAliasKeys ==
    IF last.kind = "commit" THEN DOMAIN alias_map \ DOMAIN last.aliases ELSE {}

\* C22: in every reachable state of a run over a stream with unique marks,
\* each alias entry maps the mark of a pruned commit to a mark that was in
\* the emitted-marks set when the entry was recorded; no mark is aliased to
\* itself, no alias key is in the emitted-marks set, no alias target is an
\* alias key, and resolving any mark never leaves the loop through the cycle
\* breaker.
C22_AliasAcyclic ==
    /\ \A k \in DOMAIN alias_map :
          /\ k \in pruned
          /\ alias_map[k] \in emitted_marks
          /\ alias_map[k] # k
          /\ k \notin emitted_marks
          /\ alias_map[k] \notin DOMAIN alias_map
    /\ \A k \in NewAliasKeys : alias_map[k] \in last.emitted
    /\ \A k \in DOMAIN last.aliases : alias_map[k] = last.aliases[k]
    /\ \A m \in Marks : ~CycleBreakerFires(m, {}, alias_map)

\* two commits were pruned one after the other, the second naming the first
\* as its parent, and both are aliased to the same emitted mark
C22_Witness ==
    /\ via # {}
    /\ \E k \in via : \E j \in DOMAIN alias_map :
          /\ j # k
          /\ k \in DOMAIN alias_map
          /\ alias_map[j] = alias_map[k]
          /\ resolve_canonical_mark(k, alias_map) \in emitted_marks

\* the commit terminated last was pruned
LastPruned == last.kind = "commit" /\ ~last.kept

\* C23: whenever the terminator prunes a commit it records an alias for the
\* commit's mark, to a mark of the emitted-marks set, and writes the alias
\* stanza: a pruned commit is never skipped without an alias.
C23_PrunedAlwaysAliased ==
    LastPruned =>
        /\ IsSome(last.mark)
        /\ Unwrap(last.mark) \in DOMAIN alias_map
        /\ Unwrap(last.mark) \notin DOMAIN last.aliases
        /\ alias_map[Unwrap(last.mark)] \in last.emitted
        /\ written = build_alias(Unwrap(last.mark), alias_map[Unwrap(last.mark)])
        /\ first_parent_mark = Some(alias_map[Unwrap(last.mark)])

\* a commit whose first input parent had been pruned was pruned as well, and
\* its alias stanza was written
C23_Witness ==
    /\ LastPruned
    /\ Unwrap(last.mark) \in via
    /\ written = build_alias(Unwrap(last.mark), alias_map[Unwrap(last.mark)])
    /\ last.in_parents[1].n \in DOMAIN last.aliases

(***************************************************************************)
(* Path renaming in the file-change handler: lists of rename rules, among  *)
(* them rules with an empty old or new prefix and rules that apply only to *)
(* the result of an earlier rule.                                          *)
(***************************************************************************)
MaxRenames == 2

\* a -> `:`, `:` -> nothing, nothing -> a
RenamePairs == { << << 97 >>, << 58 >> >>, << << 58 >>, << >> >>, << << >>, << 97 >> >> }

RenameOptions ==
    [paths : SUBSET { << 97 >> }, path_globs : { {} }, path_regexes : { {} },
     invert_paths : BOOLEAN,
     path_renames : UNION { [1 .. n -> RenamePairs] : n \in 0 .. MaxRenames },
     path_compat_policy : { "Sanitize" }]

InitRename ==
    /\ windows = FALSE
    /\ fc_opts \in {Some(o) : o \in RenameOptions}
    /\ fc_in = None
    /\ fc_out = None
    /\ FcElseIdle

SpecRename == InitRename /\ [][NextCompat]_vars

\* one rule applied to a path: old_prefix replaced by new_prefix if the path
\* starts with it
ApplyRule(path, rule) ==
    IF Len(rule[1]) <= Len(path) /\ SubSeq(path, 1, Len(rule[1])) = rule[1]
    THEN rule[2] \o SubSeq(path, Len(rule[1]) + 1, Len(path))
    ELSE path

\* the path after the first i rules, each visited once in configured order
FoldRules(path, rules) ==
    LET after[i \in 0 .. Len(rules)] ==
            IF i = 0 THEN path ELSE ApplyRule(after[i - 1], rules[i])
    IN after[Len(rules)]

\* the keep rule of the handler, read on the paths of the directive read
KeepOnInput ==
    LET d == Unwrap(fc_in)
        o == Unwrap(fc_opts)
        matched == \E i \in 1 .. Len(d.paths) : \E pref \in o.paths : StartsWith(d.paths[i], pref)
    IN
    \/ d.kind = "deleteall"
    \/ o.paths = {}
    \/ (matched /\ ~o.invert_paths)
    \/ (~matched /\ o.invert_paths)

\* C24: the keep/drop decision of a directive is taken on its decoded input
\* paths, before any rename, and each written path of a kept directive is
\* the input path after the rename rules were visited once each in
\* configured order, each replacing old_prefix by new_prefix when the path
\* reached so far starts with old_prefix; an empty old_prefix prepends
\* new_prefix, an empty new_prefix strips old_prefix.
C24_RenameFold ==
    IsSome(fc_out) =>
        LET d == Unwrap(fc_in)
            o == Unwrap(fc_opts)
            out == Unwrap(fc_out)
        IN
        /\ ~out.err
        /\ IsSome(out.line) <=> KeepOnInput
        /\ IsSome(out.line) /\ d.kind # "deleteall" =>
              /\ Unwrap(out.line).kind = d.kind
              /\ \A i \in 1 .. Len(d.paths) :
                    /\ WrittenPath(i) = FoldRules(d.paths[i], o.path_renames)
                    /\ \A r \in RenamePairs :
                          o.path_renames = << r >> =>
                              /\ r[1] = << >> => WrittenPath(i) = r[2] \o d.paths[i]
                              /\ r[2] = << >> /\ StartsWith(d.paths[i], r[1]) =>
                                    r[1] \o WrittenPath(i) = d.paths[i]

\* a directive kept for its input path `a..` was written with a path the
\* filter would have dropped, after a second rule applied to the result of the
\* first one only
C24_Witness ==
    /\ IsSome(fc_out)
    /\ Kept
    /\ Unwrap(fc_in).kind = "M"
    /\ Unwrap(fc_opts).paths = { << 97 >> }
    /\ ~Unwrap(fc_opts).invert_paths
    /\ Len(Unwrap(fc_opts).path_renames) = 2
    /\ ApplyRule(Unwrap(fc_in).paths[1], Unwrap(fc_opts).path_renames[2]) = Unwrap(fc_in).paths[1]
    /\ ApplyRule(Unwrap(fc_in).paths[1], Unwrap(fc_opts).path_renames[1]) # WrittenPath(1)
    /\ ~StartsWith(WrittenPath(1), << 97 >>)

(***************************************************************************)
(* The file-change handler of filechange.rs on the bytes of a line:        *)
(* parse_file_change_line, parse_path and is_line_end, and the line        *)
(* handle_file_change_line returns.  The build is not for Windows.         *)
(***************************************************************************)
\* bare path tokens: a, a/a
BareTokens == { << 97 >>, << 97, 47, 97 >> }

\* quoted path tokens with their closing quote: "a", "a a", "a\""
QuotedTokens == { << 34, 97, 34 >>, << 34, 97, 32, 97, 34 >>, << 34, 97, 92, 34, 34 >> }

\* quoted path tokens without a closing quote: ", "a, "a\"
OpenTokens == { << 34 >>, << 34, 97 >>, << 34, 97, 92, 34 >> }

PathTokens == BareTokens \cup QuotedTokens \cup OpenTokens

\* LF, CR LF, and no terminator at all
LineEnds == { << 10 >>, << 13, 10 >>, << >> }

\* `M 100644 :1 `
ModifyHead == << 77, 32, 49, 48, 48, 54, 52, 52, 32, 58, 49, 32 >>

\* the lines process_commit_line hands over: M, D, C and R lines
RawLines ==
    { ModifyHead \o t \o e : t \in PathTokens, e \in LineEnds }
       \cup { << 68, 32 >> \o t \o e : t \in PathTokens, e \in LineEnds }
       \cup { << k, 32 >> \o t \o << 32 >> \o u \o e :
                 k \in {67, 82}, t \in PathTokens, u \in PathTokens, e \in LineEnds }

\* the configurations: the prefix `a` configured or not, inverted or not, the
\* rename a -> b configured or not
LineOptions ==
    [paths : SUBSET { << 97 >> }, path_globs : { {} }, path_regexes : { {} },
     invert_paths : BOOLEAN,
     path_renames : { << >>, << << << 97 >>, << 98 >> >> >> },
     path_compat_policy : { "Sanitize" }]

\* iter().position(|&b| b in bs), counted from 1; 0 when there is none
Position(s, bs) ==
    LET at == {i \in 1 .. Len(s) : s[i] \in bs} IN
    IF at = {} THEN 0 ELSE CHOOSE i \in at : \A j \in at : i <= j

\* filechange.rs 103-108: the backslashes right before index k
Backslashes(input, k) ==
    LET ns == {n \in 0 .. k - 1 : \A j \in 1 .. n : input[k - j] = 92} IN
    CHOOSE n \in ns : \A m \in ns : m <= n

\* filechange.rs 100-118: the closing quote of a quoted path, 0 if none
closing_quote(input) ==
    LET at == {k \in 2 .. Len(input) : input[k] = 34 /\ Backslashes(input, k) % 2 = 0} IN
    IF at = {} THEN 0 ELSE CHOOSE k \in at : \A j \in at : k <= j

\* filechange.rs: parse_path
parse_path(input) ==
    IF input = << >> THEN None
    ELSE IF input[1] = 34
    THEN LET k == closing_quote(input) IN
         IF k = 0 THEN None
         ELSE Some([path |-> dequote_c_style_bytes(SubSeq(input, 2, k - 1)),
                    rest |-> SubSeq(input, k + 1, Len(input))])
    ELSE LET k == Position(input, {32, 10}) IN
         IF k = 0 THEN Some([path |-> input, rest |-> << >>])
         ELSE Some([path |-> SubSeq(input, 1, k - 1), rest |-> SubSeq(input, k, Len(input))])

\* filechange.rs: is_line_end
is_line_end(rest) ==
    IF rest = << >> THEN TRUE
    ELSE IF rest[1] # 10 THEN FALSE
    ELSE Tail(rest) = << >>

\* filechange.rs 65-89: the two paths of a C or R line
parse_two_paths(kind, rest) ==
    LET p == parse_path(rest) IN
    IF p = None THEN None
    ELSE IF Unwrap(p).rest = << >> \/ Unwrap(p).rest[1] # 32 THEN None
    ELSE LET q == parse_path(Tail(Unwrap(p).rest)) IN
         IF q = None THEN None
         ELSE IF ~is_line_end(Unwrap(q).rest) THEN None
         ELSE Some(FileChange(kind, << >>, << >>, << Unwrap(p).path, Unwrap(q).path >>))

\* filechange.rs: parse_file_change_line
parse_file_change_line(line) ==
    IF line = << 100, 101, 108, 101, 116, 101, 97, 108, 108, 10 >>
    THEN Some(FileChange("deleteall", << >>, << >>, << >>))
    ELSE IF Len(line) < 2 THEN None
    ELSE IF line[1] \notin {77, 68, 67, 82} THEN None
    ELSE IF line[2] # 32 THEN None
    ELSE LET rest == Tail_from(line, 2) IN
         IF line[1] = 77
         THEN LET space1 == Position(rest, {32}) IN
              IF space1 = 0 THEN None
              ELSE LET mode == SubSeq(rest, 1, space1 - 1)
                       rest1 == Tail_from(rest, space1)
                       space2 == Position(rest1, {32})
                   IN
                   IF space2 = 0 THEN None
                   ELSE LET id == SubSeq(rest1, 1, space2 - 1)
                            p == parse_path(Tail_from(rest1, space2))
                        IN
                        IF p = None THEN None
                        ELSE IF ~is_line_end(Unwrap(p).rest) THEN None
                        ELSE Some(FileChange("M", mode, id, << Unwrap(p).path >>))
         ELSE IF line[1] = 68
         THEN LET p == parse_path(rest) IN
              IF p = None THEN None
              ELSE IF ~is_line_end(Unwrap(p).rest) THEN None
              ELSE Some(FileChange("D", << >>, << >>, << Unwrap(p).path >>))
         ELSE parse_two_paths(IF line[1] = 67 THEN "C" ELSE "R", rest)

\* filechange.rs 243-250, 267-270, 297-302, 329-334: the rebuilt line
Rebuilt(fc) ==
    IF fc.kind = "M"
    THEN << 77, 32 >> \o fc.mode \o << 32 >> \o fc.id \o << 32 >> \o fc.paths[1] \o << 10 >>
    ELSE IF fc.kind = "D" THEN << 68, 32 >> \o fc.paths[1] \o << 10 >>
    ELSE << IF fc.kind = "C" THEN 67 ELSE 82, 32 >> \o fc.paths[1] \o << 32 >>
            \o fc.paths[2] \o << 10 >>

\* filechange.rs: handle_file_change_line on the bytes of a line: the bytes
\* to write (None to drop the line), or an error
handle_line_bytes(line, o, win) ==
    LET parsed == parse_file_change_line(line) IN
    IF parsed = None
    THEN [line |-> Some(line), err |-> FALSE, parsed |-> None]
    ELSE IF Unwrap(parsed).kind = "deleteall"
    THEN [line |-> Some(line), err |-> FALSE, parsed |-> parsed]
    ELSE LET out == HandleFileChangeOutcome(Unwrap(parsed), o, win) IN
         [line |-> IF IsSome(out.line) THEN Some(Rebuilt(Unwrap(out.line))) ELSE None,
          err |-> out.err,
          parsed |-> parsed]

InitLines ==
    /\ line_opts \in {Some(o) : o \in LineOptions}
    /\ fc_line \in RawLines
    /\ fc_result = None
    /\ LinesElseIdle

(* ---- filechange.rs: handle_file_change_line on one line ---- *)
HandleLine ==
    /\ fc_result = None
    /\ fc_result' = Some(handle_line_bytes(fc_line, Unwrap(line_opts), windows))
    /\ UNCHANGED << line_opts, fc_line >>
    /\ UNCHANGED not_lines_vars

NextLines == HandleLine

SpecLines == InitLines /\ [][NextLines]_vars

\* the line ends in CR LF
EndsInCrLf(line) ==
    Len(line) >= 2 /\ line[Len(line) - 1] = 13 /\ line[Len(line)] = 10

\* the same line, ended by LF alone
LfForm(line) == SubSeq(line, 1, Len(line) - 2) \o << 10 >>

\* C25: a file-change line ended by CR LF is recognized as the directive its
\* LF-ended form is, for quoted and for bare paths: the decoded paths are the
\* same, without the CR, and the line is filtered and renamed as the LF-ended
\* line is.
C25_CrLfRecognized ==
    IsSome(fc_result) /\ EndsInCrLf(fc_line)
       /\ IsSome(parse_file_change_line(LfForm(fc_line))) =>
        LET lf == handle_line_bytes(LfForm(fc_line), Unwrap(line_opts), windows)
            got == Unwrap(fc_result)
        IN
        /\ got.parsed = lf.parsed
        /\ got.err = lf.err
        /\ IsSome(got.line) <=> IsSome(lf.line)
        /\ IsSome(got.line) =>
              \/ Unwrap(got.line) = Unwrap(lf.line)
              \/ Unwrap(got.line) = SubSeq(Unwrap(lf.line), 1, Len(Unwrap(lf.line)) - 1)
                                       \o << 13, 10 >>

\* where the first path of an M, D, C or R line begins
PathStart(line) == IF line[1] = 77 THEN Len(ModifyHead) ELSE 2

\* the first path of the line opens with a double quote and no double quote
\* preceded by an even number of backslashes follows before the end of the line
UnterminatedQuote(line) ==
    LET rest == Tail_from(line, PathStart(line)) IN
    /\ rest # << >>
    /\ rest[1] = 34
    /\ \A k \in 2 .. Len(rest) : ~(rest[k] = 34 /\ Backslashes(rest, k) % 2 = 0)

\* C26: a file-change line whose quoted path is not terminated is a fatal
\* framing error: handling the line fails, and the line is never written
\* downstream.
C26_UnterminatedQuoteFatal ==
    IsSome(fc_result) /\ UnterminatedQuote(fc_line) =>
        /\ Unwrap(fc_result).err
        /\ Unwrap(fc_result).line = None

(***************************************************************************)
(* glob_match_bytes of pathutil.rs, over patterns of `*`, `/`, `?`, `a`    *)
(* and paths of `/`, `a`, `x`.                                             *)
(***************************************************************************)
MaxGlobLen == 4
MaxGlobPathLen == 3

GlobPatterns == UNION { [1 .. n -> {42, 47, 63, 97}] : n \in 0 .. MaxGlobLen }

GlobPaths == UNION { [1 .. n -> {47, 97, 120}] : n \in 0 .. MaxGlobPathLen }

InitGlob ==
    /\ glob_pat \in GlobPatterns
    /\ glob_text \in GlobPaths
    /\ glob_result = None
    /\ GlobElseIdle

(* ---- pathutil.rs: glob_match_bytes(pat, text) ---- *)
GlobMatch ==
    /\ glob_result = None
    /\ glob_result' = Some(glob_match_bytes(glob_pat, glob_text))
    /\ UNCHANGED << glob_pat, glob_text >>
    /\ UNCHANGED not_glob_vars

NextGlob == GlobMatch

SpecGlob == InitGlob /\ [][NextGlob]_vars

\* the stated rules: `**` matches any run of bytes, `*` any run of bytes
\* other than `/`, `?` one byte other than `/`, every other byte itself; the
\* pattern is matched against the path from its first byte to its last
RECURSIVE MatchesByRules(_, _)
MatchesByRules(p, t) ==
    IF p = << >> THEN t = << >>
    ELSE IF Len(p) >= 2 /\ p[1] = 42 /\ p[2] = 42
    THEN \E i \in 0 .. Len(t) :
            MatchesByRules(SubSeq(p, 3, Len(p)), SubSeq(t, i + 1, Len(t)))
    ELSE IF p[1] = 42
    THEN \E i \in 0 .. Len(t) :
            /\ \A j \in 1 .. i : t[j] # 47
            /\ MatchesByRules(Tail(p), SubSeq(t, i + 1, Len(t)))
    ELSE IF p[1] = 63
    THEN t # << >> /\ t[1] # 47 /\ MatchesByRules(Tail(p), Tail(t))
    ELSE t # << >> /\ t[1] = p[1] /\ MatchesByRules(Tail(p), Tail(t))

\* C27: glob_match_bytes(pattern, path) is true exactly when the pattern
\* matches the path under the rules: `*` matches any run of bytes other than
\* `/`, `**` any run of bytes, `?` one byte other than `/`, and every other
\* pattern byte, a `/` after `**` included, matches only itself.
C27_GlobSemantics ==
    IsSome(glob_result) => (Unwrap(glob_result) <=> MatchesByRules(glob_pat, glob_text))

\* the pattern of rule i occurs nowhere in the payload (the replacement texts
\* of the rule sets hold none of the pattern bytes)
OccursNowhere(i) ==
    \A at \in 0 .. Len(payload) : ~OccursAt(payload, repl_pairs[i][1], at)

\* C28: the result of apply does not depend on the engine the rule count
\* selects: it is the sequential replacement of the rules in order, for fewer
\* than AHO_CORASICK_THRESHOLD rules and for more alike, so a last rule whose
\* pattern occurs nowhere leaves the output of the rules before it unchanged.
C28_EngineIndependence ==
    IsSome(applied) =>
        /\ Unwrap(applied).out = apply_pairs(payload, repl_pairs)
        /\ Len(repl_pairs) >= 2 /\ OccursNowhere(Len(repl_pairs)) =>
              Unwrap(applied).out =
                  apply(SubSeq(repl_pairs, 1, Len(repl_pairs) - 1), payload)

(***************************************************************************)
(* The rules file of message.rs: MessageReplacer::from_file reads the      *)
(* literal rules, blob_regex::RegexReplacer::from_file the `regex:` and    *)
(* `glob:` rules, of the same file.                                        *)
(***************************************************************************)
MaxRuleLines == 3

\* b"regex:", b"glob:", b"==>", b"***REMOVED***", b'#', b'$'
REGEX_PREFIX == << 114, 101, 103, 101, 120, 58 >>

GLOB_PREFIX == << 103, 108, 111, 98, 58 >>

SEPARATOR == << 61, 61, 62 >>

REMOVED == << 42, 42, 42, 82, 69, 77, 79, 86, 69, 68, 42, 42, 42 >>

\* the lines: a pattern `a`, bare or after a prefix, with or without the
\* replacement `==>b`; a comment; an empty line
RuleLines ==
    { pre \o << 97 >> \o rep : pre \in { << >>, REGEX_PREFIX, GLOB_PREFIX },
                               rep \in { << >>, SEPARATOR \o << 98 >> } }
      \cup { << 35, 97 >>, << >> }

RuleFiles == UNION { [1 .. n -> RuleLines] : n \in 0 .. MaxRuleLines }

\* payloads: the pattern alone, and text that spells a prefixed line
RulePayloads == { << 97 >>, REGEX_PREFIX \o << 97 >>, << 120 >> \o GLOB_PREFIX \o << 97, 120 >> }

\* message.rs 275: the first index (from 0) at which n occurs in h
find_subslice(h, n) ==
    LET at == {i \in 0 .. Len(h) - Len(n) : OccursAt(h, n, i)} IN
    IF at = {} THEN None ELSE Some(CHOOSE i \in at : \A j \in at : i <= j)

\* message.rs 25-42: the pairs one line adds
literal_pairs_of(raw) ==
    IF raw = << >> THEN << >>
    ELSE IF StartsWith(raw, << 35 >>) THEN << >>
    ELSE LET pos == find_subslice(raw, SEPARATOR) IN
         IF IsSome(pos)
         THEN LET from == SubSeq(raw, 1, Unwrap(pos))
                  to == Tail_from(raw, Unwrap(pos) + 3)
              IN IF from # << >> THEN << << from, to >> >> ELSE << >>
         ELSE << << raw, REMOVED >> >>

\* message.rs 21-63: MessageReplacer::from_file, the pairs of all lines
RECURSIVE MessageReplacer_from_file(_)
MessageReplacer_from_file(lines) ==
    IF lines = << >> THEN << >>
    ELSE literal_pairs_of(Head(lines)) \o MessageReplacer_from_file(Tail(lines))

\* message.rs 327-331, 354-358: pattern and replacement after the prefix
split_rule(rest) ==
    LET pos == find_subslice(rest, SEPARATOR) IN
    IF IsSome(pos)
    THEN [pat |-> SubSeq(rest, 1, Unwrap(pos)), rep |-> Tail_from(rest, Unwrap(pos) + 3)]
    ELSE [pat |-> rest, rep |-> REMOVED]

\* message.rs 319-384: the rules one line adds (the patterns of the lines
\* compile)
regex_rules_of(raw) ==
    IF raw = << >> THEN << >>
    ELSE IF StartsWith(raw, << 35 >>) THEN << >>
    ELSE IF StartsWith(raw, REGEX_PREFIX)
    THEN LET r == split_rule(Tail_from(raw, Len(REGEX_PREFIX))) IN
         << [kind |-> "regex", pat |-> r.pat, rep |-> r.rep,
             has_dollar |-> \E i \in 1 .. Len(r.rep) : r.rep[i] = 36] >>
    ELSE IF StartsWith(raw, GLOB_PREFIX)
    THEN LET r == split_rule(Tail_from(raw, Len(GLOB_PREFIX))) IN
         << [kind |-> "glob", pat |-> r.pat, rep |-> r.rep, has_dollar |-> FALSE] >>
    ELSE << >>

\* message.rs 316-390: blob_regex::RegexReplacer::from_file
RECURSIVE regex_rules_from(_)
regex_rules_from(lines) ==
    IF lines = << >> THEN << >>
    ELSE regex_rules_of(Head(lines)) \o regex_rules_from(Tail(lines))

RegexReplacer_from_file(lines) ==
    LET rules == regex_rules_from(lines) IN
    IF rules = << >> THEN None ELSE Some(rules)

InitRules ==
    /\ rules_file \in RuleFiles
    /\ rules_payload \in RulePayloads
    /\ msg_replacer = None
    /\ regex_replacer = None
    /\ msg_out = None
    /\ RulesElseIdle

(* ---- message.rs: MessageReplacer::from_file(path) ---- *)
LoadLiteral ==
    /\ msg_replacer = None
    /\ msg_replacer' = Some(MessageReplacer_from_file(rules_file))
    /\ UNCHANGED << rules_file, rules_payload, regex_replacer, msg_out >>
    /\ UNCHANGED not_rules_vars

(* ---- message.rs: blob_regex::RegexReplacer::from_file(path) ---- *)
LoadRegex ==
    /\ regex_replacer = None
    /\ regex_replacer' = Some(RegexReplacer_from_file(rules_file))
    /\ UNCHANGED << rules_file, rules_payload, msg_replacer, msg_out >>
    /\ UNCHANGED not_rules_vars

(* ---- message.rs: replacer.apply(data) ---- *)
ApplyLiteral ==
    /\ IsSome(msg_replacer)
    /\ msg_out = None
    /\ msg_out' = Some(apply(Unwrap(msg_replacer), rules_payload))
    /\ UNCHANGED << rules_file, rules_payload, msg_replacer, regex_replacer >>
    /\ UNCHANGED not_rules_vars

NextRules == LoadLiteral \/ LoadRegex \/ ApplyLiteral

SpecRules == InitRules /\ [][NextRules]_vars

\* line i of the file is a rule with a prefix
Prefixed(i) ==
    StartsWith(rules_file[i], REGEX_PREFIX) \/ StartsWith(rules_file[i], GLOB_PREFIX)

\* the rule lines of the file that carry no prefix
UnprefixedRuleLines ==
    { i \in 1 .. Len(rules_file) :
        /\ rules_file[i] # << >>
        /\ ~StartsWith(rules_file[i], << 35 >>)
        /\ ~Prefixed(i) }

\* some literal pattern occurs in the payload
LiteralOccurs(prs) ==
    \E k \in 1 .. Len(prs) :
        \E at \in 0 .. Len(rules_payload) : OccursAt(rules_payload, prs[k][1], at)

\* C29: a rules-file line beginning with `regex:` or `glob:` yields only a
\* regex or glob rule: the literal rule set holds one pair per unprefixed rule
\* line and none whose pattern begins with a prefix, the automaton is selected
\* by the number of unprefixed rule lines, and a payload in which no
\* unprefixed pattern occurs is returned unchanged by the literal rules.
C29_PrefixSelectsKind ==
    IsSome(msg_replacer) =>
        LET prs == Unwrap(msg_replacer) IN
        /\ Len(prs) = Cardinality(UnprefixedRuleLines)
        /\ \A k \in 1 .. Len(prs) :
              ~StartsWith(prs[k][1], REGEX_PREFIX) /\ ~StartsWith(prs[k][1], GLOB_PREFIX)
        /\ has_ac(prs) <=> Cardinality(UnprefixedRuleLines) >= AHO_CORASICK_THRESHOLD
        /\ IsSome(msg_out) =>
              \/ \E i \in UnprefixedRuleLines :
                    \E at \in 0 .. Len(rules_payload) :
                        OccursAt(rules_payload, literal_pairs_of(rules_file[i])[1][1], at)
              \/ Unwrap(msg_out) = rules_payload

(***************************************************************************)
(* The mailmap rewriter of commit.rs: rewrite_mailmap_line on identity     *)
(* lines `keyword Name <email> timestamp tz`.                              *)
(***************************************************************************)
MaxMailmapRules == 2

\* b"author ", b"committer ", b"tagger "
AUTHOR == << 97, 117, 116, 104, 111, 114, 32 >>

COMMITTER == << 99, 111, 109, 109, 105, 116, 116, 101, 114, 32 >>

TAGGER == << 116, 97, 103, 103, 101, 114, 32 >>

\* ` 1 +0\n`, the timestamp and zone of the lines
IdentSuffix == << 32, 49, 32, 43, 48, 10 >>

\* names: none, `O`, `O P`; emails: `o`, `x`, `n`
IdentNames == { << >>, << 79 >>, << 79, 32, 80 >> }

IdentEmails == { << 111 >>, << 120 >>, << 110 >> }

Identities == [kw : { AUTHOR, COMMITTER, TAGGER }, name : IdentNames, email : IdentEmails]

\* a rule as from_reader stores it in old_email_patterns, new_names and
\* new_emails: new name `N` or none, new email `n`
MailmapRules == [old_email : { << 111 >>, << 120 >> }, new_name : { << >>, << 78 >> },
                 new_email : { << 110 >> }]

MailmapRuleLists == UNION { [1 .. n -> MailmapRules] : n \in 0 .. MaxMailmapRules }

\* the bytes of the line
IdentityLine(id) ==
    id.kw \o (IF id.name = << >> THEN << >> ELSE id.name \o << 32 >>)
          \o << 60 >> \o id.email \o << 62 >> \o IdentSuffix

\* str::trim_end
RECURSIVE trim_end(_)
trim_end(s) ==
    IF s # << >> /\ s[Len(s)] \in {32, 9, 10, 13} THEN trim_end(SubSeq(s, 1, Len(s) - 1)) ELSE s

\* commit.rs 719-777: MailmapRewriter::rewrite_line (a pattern `^old$`
\* matches the email equal to old)
rewrite_line(rules, line) ==
    LET header_len == IF StartsWith(line, AUTHOR) THEN Len(AUTHOR)
                      ELSE IF StartsWith(line, COMMITTER) THEN Len(COMMITTER)
                      ELSE 0
    IN
    IF header_len = 0 THEN line
    ELSE
    LET identity == Tail_from(line, header_len)
        lt == Position(identity, {60})
    IN
    IF lt = 0 THEN line
    ELSE
    LET gt == Position(Tail_from(identity, lt - 1), {62}) IN
    IF gt = 0 THEN line
    ELSE
    LET close == lt - 1 + gt
        old_name == trim_end(SubSeq(identity, 1, lt - 1))
        old_email == SubSeq(identity, lt + 1, close - 1)
        suffix == Tail_from(identity, close)
        hits == {i \in 1 .. Len(rules) : rules[i].old_email = old_email}
    IN
    IF hits = {} THEN line
    ELSE
    LET i == CHOOSE h \in hits : \A g \in hits : h <= g
        final_name == IF rules[i].new_name = << >> THEN old_name ELSE rules[i].new_name
        final_email == IF rules[i].new_email = << >> THEN old_email ELSE rules[i].new_email
    IN SubSeq(line, 1, header_len)
          \o (IF final_name # << >> THEN final_name \o << 32 >> ELSE << >>)
          \o << 60 >> \o final_email \o << 62 >> \o suffix

\* commit.rs 842-850: rewrite_mailmap_line, with a rewriter configured
rewrite_mailmap_line(line, rules) ==
    IF rules = << >> THEN line ELSE rewrite_line(rules, line)

InitMailmap ==
    /\ mm_rules \in MailmapRuleLists
    /\ mm_ident \in Identities
    /\ mm_out = None
    /\ MailmapElseIdle

(* ---- commit.rs: rewrite_mailmap_line(line, Some(rewriter)) ---- *)
RewriteIdentity ==
    /\ mm_out = None
    /\ mm_out' = Some(rewrite_mailmap_line(IdentityLine(mm_ident), mm_rules))
    /\ UNCHANGED << mm_rules, mm_ident >>
    /\ UNCHANGED not_mailmap_vars

NextMailmap == RewriteIdentity

SpecMailmap == InitMailmap /\ [][NextMailmap]_vars

\* the rules whose old email is the email of the line
MatchingRules == {i \in 1 .. Len(mm_rules) : mm_rules[i].old_email = mm_ident.email}

\* the identity the first matching rule gives
Mapped ==
    LET i == CHOOSE h \in MatchingRules : \A g \in MatchingRules : h <= g IN
    [kw |-> mm_ident.kw,
     name |-> IF mm_rules[i].new_name = << >> THEN mm_ident.name ELSE mm_rules[i].new_name,
     email |-> mm_rules[i].new_email]

\* C30: for an author, committer or tagger line whose identity matches a
\* rule, the mailmap rewriter returns the line with the rule's new name (the
\* old name when the rule gives none) and the rule's new email, the keyword
\* and the ` timestamp tz` suffix unchanged; a line that matches no rule is
\* returned byte-identical.
C30_MailmapRewritesIdentity ==
    IsSome(mm_out) =>
        Unwrap(mm_out) = IF MatchingRules = {} THEN IdentityLine(mm_ident)
                         ELSE IdentityLine(Mapped)

====
